---- MODULE Spec2Model ----
(***************************************************************************)
(* Quiz-resolution control loop of llm-quiz (src/main.py) together with    *)
(* the browser ownership of QuizSolver (src/quiz_solver.py) and the        *)
(* shutdown sweep of the FastAPI lifespan handler.                         *)
(*                                                                         *)
(* One action per stretch of code that runs between two suspension points  *)
(* (await) of the asyncio event loop: everything a coroutine does between  *)
(* two awaits is one atomic step, and different coroutines interleave only *)
(* at their awaits.                                                        *)
(***************************************************************************)
EXTENDS Integers, Sequences, FiniteSets, TLC

\* ------------------------------------------------------------------ bounds
TickSeconds == 90       \* granularity of the wall clock
MaxClock == 270         \* the wall clock stops here
MaxFeedback == 1        \* the endpoint stops giving a reason after this many
MaxShutdownPosts == 1   \* SpecShutdown: per-URL posts the endpoint rejects

\* --------------------------------------------------------- program constants
QUIZ_TIMEOUT == 180          \* Config.QUIZ_TIMEOUT
max_retries_safety == 50     \* process_quiz

\* ------------------------------------------------------------------ values
None == "None"
Sessions == {"s1", "s2"}
Earlier(s) == IF s = "s2" THEN {"s1"} ELSE {}   \* session ids are timestamps
LoopSessions == {"s1"}
Urls == {"https://q/a", "https://q/project2/b"}
ShutdownUrls == {"https://q/a"}     \* the quiz URLs of SpecShutdown
Project2Urls == {"https://q/project2/b"}
Reasons == {"wrong format"}
Answers == {"A"}

VARIABLES
    clock,            \* datetime.now(), in seconds
    active_sessions,  \* keys of the registry dict, in insertion order
    ses,              \* per session: the locals of process_quiz and its record
    solver,           \* per session: QuizSolver.browser / .playwright
    sweep,            \* the shutdown part of lifespan
    reg_fault,        \* a registry operation raised (KeyError / RuntimeError)
    response,         \* the response of the last POST /quiz, with the kind,
                      \* secret and email of its request
    call              \* the call of a function under check: input and result

vars == <<clock, active_sessions, ses, solver, sweep, reg_fault, response,
          call>>

Range(f) == {f[i] : i \in DOMAIN f}

Min(a, b) == IF a < b THEN a ELSE b

\* ------------------------------------------------------------ initial state
NoResult == [isdict |-> TRUE, correct |-> FALSE, url |-> None, reason |-> None]

NoPost == [submit_url |-> None, url |-> None, answer |-> None]

\* what the last step of the session did: how fetch_quiz_page ended ("none":
\* the step was not the end of a fetch; "raised", "empty": no question text,
\* "page"), the answer solve_quiz returned ("none": the step was not a return
\* of solve_quiz), the POST it made and the outcome it got, the awaited
\* operation it began, and whether the timeout had expired when it began it
NoEv == [fetched |-> "none", solved |-> "none", posted |-> FALSE,
         post |-> NoPost, result |-> NoResult, began |-> "none",
         late |-> FALSE]

\* quiz_data["question"]: the text of the page, and the feedback lines
\* appended to it
NoQuestion == [page |-> None, feedback |-> <<>>]

\* the locals of process_quiz that are dead at the loop head and in the
\* finally block are kept at these values there
DeadLocals ==
    [question |-> NoQuestion, submit_url |-> None, answer |-> None,
     retry_count |-> 0]

IdleSession ==
    [pc |-> "idle", start_time |-> 0, current_url |-> None,
     question |-> NoQuestion, submit_url |-> None, answer |-> None,
     retry_count |-> 0, exit |-> "none", submitted |-> 0, ev |-> NoEv]

\* QuizSolver.__init__: no browser, no playwright.  closes is the history of
\* browser.close() calls, one counter per browser this solver launched.
NewSolver ==
    [made |-> TRUE, browser |-> 0, playwright |-> FALSE, closes |-> <<>>]

\* no QuizSolver was constructed for this session id
NoSolver == [NewSolver EXCEPT !.made = FALSE]

\* Config.SECRET and Config.EMAIL, read from the environment
SECRET == "s3cret"
EMAIL == "a@b.com"

\* bodies of POST /quiz: not JSON, a JSON object that is not a QuizRequest (a
\* field is missing), or a QuizRequest
Request(secret, email, url) ==
    [kind |-> "request", secret |-> secret, email |-> email, url |-> url]

Requests(urls) ==
    {[kind |-> k, secret |-> "", email |-> "", url |-> ""] :
        k \in {"not_json", "not_request"}}
    \cup {Request(secret, email, url) :
            secret \in {SECRET, "wrong"}, email \in {EMAIL, "b@b.com"},
            url \in urls}

\* what the response keeps of its request
Credentials(req) ==
    [kind |-> req.kind, secret |-> req.secret, email |-> req.email]

NoResponse ==
    [status |-> 0, detail |-> "", request |-> Credentials(Request("", "", ""))]

\* no call of a function under check
NoCall == [op |-> "none"]

Init ==
    /\ clock = 0
    /\ active_sessions = <<>>
    /\ ses = [s \in Sessions |-> IdleSession]
    /\ solver = [s \in Sessions |-> NoSolver]
    /\ sweep = [pc |-> "serving", items |-> <<>>, i |-> 0]
    /\ reg_fault = FALSE
    /\ response = NoResponse
    /\ call = NoCall

\* ------------------------------------------------------------- time checks
\* mutant: the operands of the subtraction swapped
WithinTimeoutSwapped(r, now) == r.start_time - now < QUIZ_TIMEOUT

\* (datetime.now() - start_time) < timeout          main.py 112, 174
WithinTimeout(r, now) == now - r.start_time < QUIZ_TIMEOUT

\* (datetime.now() - start_time) >= timeout         main.py 199
TimedOut(r, now) == now - r.start_time >= QUIZ_TIMEOUT

\* ------------------------------------------------ QuizSolver.close_browser
\* Runs close_browser up to its first suspension: "cb_close" is suspended in
\* `await self.browser.close()` (the call is made: it is counted), "cb_stop" in
\* `await self.playwright.stop()`, "cb_ret" returned without suspending.
close_browser(sv) ==
    IF sv.browser # 0
    THEN [sv |-> [sv EXCEPT !.closes[sv.browser] = @ + 1], at |-> "cb_close"]
    ELSE IF sv.playwright
         THEN [sv |-> sv, at |-> "cb_stop"]
         ELSE [sv |-> sv, at |-> "cb_ret"]

\* browser.close() returned: self.browser = None, then `if self.playwright`
browser_closed(sv) ==
    LET sv1 == [sv EXCEPT !.browser = 0]
    IN  IF sv1.playwright
        THEN [sv |-> sv1, at |-> "cb_stop"]
        ELSE [sv |-> sv1, at |-> "cb_ret"]

\* playwright.stop() returned: self.playwright = None, return
playwright_stopped(sv) ==
    [sv |-> [sv EXCEPT !.playwright = FALSE], at |-> "cb_ret"]

\* ------------------------------------------------------------ history
\* the session begins an awaited operation (fetch_quiz_page or solve_quiz)
Begin(r, op, now) ==
    [r EXCEPT !.ev.began = op,
              !.ev.late = (now - r.start_time >= QUIZ_TIMEOUT)]

\* fetch_quiz_page ended
Fetched(r, how) == [r EXCEPT !.ev.fetched = how]

Forget(r) ==
    [r EXCEPT !.question = DeadLocals.question,
              !.submit_url = DeadLocals.submit_url,
              !.answer = DeadLocals.answer,
              !.retry_count = DeadLocals.retry_count]

\* ---------------------------------------------------------- process_quiz
\* mutant: the `return` of a completed quiz leaves without the finally block
FinalizeSkippedOnReturn(r, sv, why) ==
    IF why = "completed"
    THEN [r |-> [r EXCEPT !.exit = why, !.pc = "done"], sv |-> sv]
    ELSE LET c == close_browser(sv)
         IN  [r |-> [r EXCEPT !.exit = why,
                              !.pc = IF c.at = "cb_ret" THEN "done" ELSE c.at],
              sv |-> c.sv]

\* the finally block, up to the first suspension of close_browser; when
\* close_browser does not suspend the record is deleted in the same step
\* (pc "done").
Finalize(r, sv, why) ==
    LET c == close_browser(sv)
    IN  [r |-> [Forget(r) EXCEPT
                   !.exit = why,
                   !.pc = IF c.at = "cb_ret" THEN "done" ELSE c.at],
         sv |-> c.sv]

\* head of the outer while, and the call of fetch_quiz_page up to the first
\* suspension inside initialize_browser / new_page
AtLoopHead(r, sv, now) ==
    IF r.current_url # None /\ WithinTimeout(r, now)
    THEN [r |-> [Begin(Forget(r), "fetch", now) EXCEPT
                    !.pc = IF sv.browser = 0 THEN "pw_start" ELSE "page"],
          sv |-> sv]
    ELSE Finalize(r, sv, "timeout")

\* mutant: the next URL is not taken over
SetUrlKept(r, u) == [r EXCEPT !.submitted = 0]

\* current_url = next_url
SetUrl(r, u) == [r EXCEPT !.current_url = u, !.submitted = 0]

\* ------------------------------------------------------ the page fetcher
PageContents ==
    [question : {"", "plain", "abs", "rel"}, html_submit : BOOLEAN]

\* QuizSolver._extract_submit_url
extract_submit_url(content) ==
    IF content.question = "abs" THEN "abs"
    ELSE IF content.question = "rel" THEN "joined"
    ELSE IF content.html_submit THEN "abs"
    ELSE None

\* QuizSolver.fetch_quiz_page, the part after the page has been rendered
fetch_quiz_page(url, content) ==
    LET found == extract_submit_url(content)
    IN  [question |-> content.question,
         submit_url |-> IF found = None /\ url \in Project2Urls
                        THEN "fixed" ELSE found]

\* the submit-URL resolution of process_quiz (None: no submit URL, break)
ResolveSubmitUrl(quiz_data, current_url) ==
    IF quiz_data.submit_url # None THEN quiz_data.submit_url
    ELSE IF quiz_data.question = "abs" THEN "abs"
    ELSE IF quiz_data.question = "rel" THEN "joined"
    ELSE IF current_url \in Project2Urls THEN "fixed"
    ELSE None

\* ------------------------------------------------------ submission client
\* what the endpoint can do with a POST: a transport / status error, a JSON
\* body that is not an object, or a JSON object with any of its fields absent
EndpointReplies ==
    [kind : {"json"}, correct : {"absent", "true", "false"},
     url : {"absent"} \cup Urls, reason : {"absent"} \cup Reasons]
    \cup [kind : {"error", "list"}, correct : {"absent"}, url : {"absent"},
          reason : {"absent"}]

\* QuizSolver.submit_answer: the normalized outcome
submit_answer(reply) ==
    IF reply.kind = "error"
    THEN [isdict |-> TRUE, correct |-> FALSE, url |-> None,
          reason |-> "Request failed"]
    ELSE [isdict |-> reply.kind = "json",
          correct |-> reply.correct = "true",
          url |-> IF reply.url = "absent" THEN None ELSE reply.url,
          reason |-> IF reply.reason = "absent" THEN None ELSE reply.reason]

\* mutant: any next URL of a rejection is followed
ShouldSkipAnyUrl(next_url, current_url) == next_url # None

\* mutant: the rejection reason is not appended
AppendFeedbackDropped(question, reason) == question

\* if next_url and next_url != current_url          (rejected answer)
ShouldSkip(next_url, current_url) ==
    next_url # None /\ next_url # current_url

\* if reason: quiz_data["question"] += feedback
AppendFeedback(question, reason) ==
    IF reason # None
    THEN [question EXCEPT !.feedback = Append(@, reason)]
    ELSE question

\* the inner while of process_quiz from its condition to the next suspension:
\* one submission (taking dt seconds) and the handling of its result
SubmitLoop(r, sv, now, dt, reply) ==
    IF r.retry_count < max_retries_safety /\ WithinTimeout(r, now)
    THEN
      LET res == submit_answer(reply)
          now2 == now + dt
          r1 == [r EXCEPT
                   !.ev.result = res,
                   !.ev.posted = TRUE,
                   !.ev.post = [submit_url |-> r.submit_url,
                                url |-> r.current_url, answer |-> r.answer],
                   !.submitted = Min(@ + 1, max_retries_safety + 1)]
      IN
      IF ~res.isdict THEN Finalize(r1, sv, "exception")
      ELSE IF res.correct
      THEN IF res.url # None
           THEN AtLoopHead(SetUrl(r1, res.url), sv, now2)
           ELSE Finalize(r1, sv, "completed")
      ELSE
        LET r2 == [r1 EXCEPT !.retry_count = @ + 1]
        IN
        IF ShouldSkip(res.url, r2.current_url)
        THEN AtLoopHead(SetUrl(r2, res.url), sv, now2)
        ELSE IF TimedOut(r2, now2)
        THEN Finalize(r2, sv, "timeout")
        ELSE
          LET r3 == [r2 EXCEPT !.question =
                                  AppendFeedback(@, res.reason)]
          IN  [r |-> [Begin(r3, "solve", now2) EXCEPT !.pc = "retry_solve"],
               sv |-> sv]
    ELSE AtLoopHead(r, sv, now)

\* the replies the environment may give to this session now
HasReason(reply) == reply.kind = "error" \/ reply.reason # "absent"

Final(reply) ==
    reply.kind = "json" /\ reply.correct = "true" /\ reply.url = "absent"

Replies(r, limited) ==
    {reply \in EndpointReplies :
        /\ HasReason(reply) => Len(r.question.feedback) < MaxFeedback
        /\ limited => ~HasReason(reply)
        /\ limited => reply.url \in {"absent"} \cup ShutdownUrls
        /\ (limited /\ r.submitted >= MaxShutdownPosts) => Final(reply)}

\* SpecShutdown: the clock moves in steps of the timeout, and pages carry
\* their submit URL in the markup or not at all
Step(limited) == IF limited THEN QUIZ_TIMEOUT ELSE TickSeconds

Delays(now, limited) == {0, Min(Step(limited), MaxClock - now)}

Pages(limited) ==
    IF limited THEN {c \in PageContents : c.question \in {"", "plain"}}
    ELSE PageContents

\* ------------------------------------------------------------- registry
\* if session_id in active_sessions: del active_sessions[session_id]
DelSession(reg, sid) ==
    IF sid \in Range(reg)
    THEN [reg |-> SelectSeq(reg, LAMBDA k : k # sid), fault |-> FALSE]
    ELSE [reg |-> reg, fault |-> FALSE]

\* mutant: the loop iterates the live mapping
SweepIterableLive(snapshot, live) == live

\* the collection the shutdown loop iterates: list(active_sessions.items())
SweepIterable(snapshot, live) == snapshot

\* the session's record as its next step finds it
Cur(s) == [ses[s] EXCEPT !.ev = NoEv]

\* a step of session s ends with the locals r and the solver state sv
Commit(s, out, now) ==
    /\ ses' = [ses EXCEPT ![s] = out.r]
    /\ solver' = [solver EXCEPT ![s] = out.sv]
    /\ clock' = now
    /\ IF out.r.pc = "done" /\ out.r.exit # "no_session"
       THEN LET d == DelSession(active_sessions, s)
            IN  /\ active_sessions' = d.reg
                /\ reg_fault' = (reg_fault \/ d.fault)
       ELSE UNCHANGED <<active_sessions, reg_fault>>
    /\ UNCHANGED <<sweep, response, call>>

\* ------------------------------------------------------------ the clock
Tick(seconds) ==
    /\ clock < MaxClock
    /\ clock' = Min(clock + seconds, MaxClock)
    /\ UNCHANGED <<active_sessions, ses, solver, sweep, reg_fault, response,
                   call>>

\* ------------------------------------------------------------ handle_quiz
\* mutant: the email of the request is not compared
RequestStatusEmailUnchecked(req) ==
    IF req.kind = "not_json"
    THEN [status |-> 400, detail |-> "Invalid JSON"]
    ELSE IF req.kind = "not_request"
    THEN [status |-> 400, detail |-> "Invalid request"]
    ELSE IF req.secret # SECRET
    THEN [status |-> 403, detail |-> "Invalid secret"]
    ELSE [status |-> 200, detail |-> "accepted"]

\* the checks of handle_quiz, in the order of the code
RequestStatus(req) ==
    IF req.kind = "not_json"
    THEN [status |-> 400, detail |-> "Invalid JSON"]
    ELSE IF req.kind = "not_request"
    THEN [status |-> 400, detail |-> "Invalid request"]
    ELSE IF req.secret # SECRET
    THEN [status |-> 403, detail |-> "Invalid secret"]
    ELSE IF req.email # EMAIL
    THEN [status |-> 403, detail |-> "Invalid email"]
    ELSE [status |-> 200, detail |-> "accepted"]

\* a POST /quiz received while the server is serving; s is the session id an
\* accepted request gets.  A rejected request raises HTTPException before
\* anything is constructed; an accepted one makes a new QuizSolver, a new
\* registry record and the task, and returns without awaiting
handle_quiz(s, req) ==
    /\ sweep.pc = "serving"
    /\ ses[s].pc = "idle"
    /\ \A t \in Earlier(s) : ses[t].pc # "idle"
    /\ clock + QUIZ_TIMEOUT <= MaxClock
    /\ LET st == RequestStatus(req)
       IN  /\ response' = [status |-> st.status, detail |-> st.detail,
                           request |-> Credentials(req)]
           /\ IF st.status = 200
              THEN /\ ses' = [ses EXCEPT ![s] =
                                 [IdleSession EXCEPT !.pc = "accepted",
                                                     !.start_time = clock,
                                                     !.current_url = req.url]]
                   /\ solver' = [solver EXCEPT ![s] = NewSolver]
                   /\ active_sessions' = Append(active_sessions, s)
              ELSE UNCHANGED <<active_sessions, ses, solver>>
    /\ UNCHANGED <<clock, sweep, reg_fault, call>>

\* ----------------------------------------------- process_quiz, step by step
\* the task starts: the registry lookup, then the first loop head
process_quiz_start(s) ==
    /\ ses[s].pc = "accepted"
    /\ IF s \notin Range(active_sessions)
       THEN Commit(s, [r |-> [Cur(s) EXCEPT !.pc = "done",
                                            !.exit = "no_session"],
                       sv |-> solver[s]], clock)
       ELSE Commit(s, AtLoopHead(Cur(s), solver[s], clock), clock)

\* initialize_browser: async_playwright().start() returned or raised
playwright_started(s) ==
    /\ ses[s].pc = "pw_start"
    /\ \E raised \in BOOLEAN :
         IF raised
         THEN Commit(s, Finalize(Fetched(Cur(s), "raised"), solver[s],
                                 "fetch_error"), clock)
         ELSE Commit(s, [r |-> [Cur(s) EXCEPT !.pc = "launch"],
                         sv |-> [solver[s] EXCEPT !.playwright = TRUE]],
                     clock)

\* initialize_browser: chromium.launch() returned a new browser or raised
browser_launched(s) ==
    /\ ses[s].pc = "launch"
    /\ \E raised \in BOOLEAN :
         IF raised
         THEN Commit(s, Finalize(Fetched(Cur(s), "raised"), solver[s],
                                 "fetch_error"), clock)
         ELSE Commit(s, [r |-> [Cur(s) EXCEPT !.pc = "page"],
                         sv |-> [solver[s] EXCEPT
                                   !.closes = Append(@, 0),
                                   !.browser = Len(solver[s].closes) + 1]],
                     clock)

\* mutant: a page without question text is solved like any other
AfterFetchUnchecked(r, sv, content, now) ==
    LET quiz_data == fetch_quiz_page(r.current_url, content)
        submit_url == ResolveSubmitUrl(quiz_data, r.current_url)
    IN  IF submit_url = None
        THEN Finalize(r, sv, "no_submit_url")
        ELSE [r |-> [Begin(r, "solve", now) EXCEPT
                        !.question = [page |-> r.current_url,
                                      feedback |-> <<>>],
                        !.submit_url = submit_url,
                        !.pc = "solve"],
              sv |-> sv]

\* what process_quiz does with a fetched page, up to the call of solve_quiz
AfterFetch(r, sv, content, now) ==
    LET quiz_data == fetch_quiz_page(r.current_url, content)
        submit_url == ResolveSubmitUrl(quiz_data, r.current_url)
    IN  IF quiz_data.question = ""
        THEN Finalize(r, sv, "no_question")
        ELSE IF submit_url = None
        THEN Finalize(r, sv, "no_submit_url")
        ELSE [r |-> [Begin(r, "solve", now) EXCEPT
                        !.question = [page |-> r.current_url,
                                      feedback |-> <<>>],
                        !.submit_url = submit_url,
                        !.pc = "solve"],
              sv |-> sv]

\* fetch_quiz_page returned a page or raised
page_fetched(s, limited) ==
    /\ ses[s].pc = "page"
    /\ \/ Commit(s, Finalize(Fetched(Cur(s), "raised"), solver[s],
                            "fetch_error"), clock)
       \/ \E content \in Pages(limited) :
            Commit(s, AfterFetch(Fetched(Cur(s), IF content.question = ""
                                                 THEN "empty" ELSE "page"),
                                 solver[s], content, clock), clock)

\* mutant: a null answer is submitted like any other
AfterSolveNullPosted(r, sv, answer, first, now, dt, reply) ==
    LET r0 == [r EXCEPT !.ev.solved = answer]
    IN  IF answer = "raise" THEN Finalize(r0, sv, "exception")
        ELSE SubmitLoop([r0 EXCEPT !.answer = answer,
                                   !.retry_count = IF first THEN 0 ELSE @],
                        sv, now, dt, reply)

\* what process_quiz does with the result of solve_quiz
AfterSolve(r, sv, answer, first, now, dt, reply) ==
    LET r0 == [r EXCEPT !.ev.solved = answer]
    IN  IF answer = "raise" THEN Finalize(r0, sv, "exception")
        ELSE IF answer = None THEN Finalize(r0, sv, "null_answer")
        ELSE SubmitLoop([r0 EXCEPT !.answer = answer,
                                   !.retry_count = IF first THEN 0 ELSE @],
                        sv, now, dt, reply)

SolveStep(s, first, limited) ==
    \E answer \in Answers \cup {None, "raise"},
       dt \in Delays(clock, limited),
       reply \in Replies(ses[s], limited) :
        LET out == AfterSolve(Cur(s), solver[s], answer, first, clock, dt,
                              reply)
        IN  Commit(s, out, IF out.r.ev.posted THEN clock + dt ELSE clock)

\* the first solve_quiz for a page returned
solve_returned(s, limited) ==
    /\ ses[s].pc = "solve"
    /\ SolveStep(s, TRUE, limited)

\* the solve_quiz of a feedback retry returned
retry_solve_returned(s, limited) ==
    /\ ses[s].pc = "retry_solve"
    /\ SolveStep(s, FALSE, limited)

\* finally: browser.close() returned inside close_browser
session_browser_closed(s) ==
    /\ ses[s].pc = "cb_close"
    /\ LET c == browser_closed(solver[s])
       IN  Commit(s, [r |-> [Cur(s) EXCEPT !.pc = IF c.at = "cb_ret"
                                                  THEN "done" ELSE c.at],
                      sv |-> c.sv], clock)

\* finally: playwright.stop() returned inside close_browser
session_playwright_stopped(s) ==
    /\ ses[s].pc = "cb_stop"
    /\ LET c == playwright_stopped(solver[s])
       IN  Commit(s, [r |-> [Cur(s) EXCEPT !.pc = "done"], sv |-> c.sv],
                  clock)

SessionStep(s, limited) ==
    \/ process_quiz_start(s)
    \/ playwright_started(s)
    \/ browser_launched(s)
    \/ page_fetched(s, limited)
    \/ solve_returned(s, limited)
    \/ retry_solve_returned(s, limited)
    \/ session_browser_closed(s)
    \/ session_playwright_stopped(s)

\* -------------------------------------------------- lifespan, the shutdown
\* the for loop from position i to its next suspension ("clear": exhausted)
RECURSIVE SweepFrom(_, _, _)
SweepFrom(items, i, solv) ==
    IF i > Len(items) THEN [pc |-> "clear", i |-> i]
    ELSE LET c == close_browser(solv[items[i]])
         IN  IF c.at = "cb_ret" THEN SweepFrom(items, i + 1, solv)
             ELSE [pc |-> c.at, i |-> i]

\* the loop asks its iterator for the next item, having solver states solv
SweepAdvance(i, solv) ==
    LET items == SweepIterable(sweep.items, active_sessions)
        st == SweepFrom(items, i, solv)
    IN  IF Len(items) # Len(sweep.items)
        THEN /\ reg_fault' = TRUE
             /\ sweep' = [sweep EXCEPT !.pc = "done"]
             /\ solver' = solv
             /\ UNCHANGED active_sessions
        ELSE IF st.pc = "clear"
        THEN /\ active_sessions' = <<>>
             /\ sweep' = [sweep EXCEPT !.pc = "done", !.i = st.i]
             /\ solver' = solv
             /\ UNCHANGED reg_fault
        ELSE /\ solver' = [solv EXCEPT ![items[st.i]] =
                                          close_browser(solv[items[st.i]]).sv]
             /\ sweep' = [sweep EXCEPT !.pc = st.pc, !.i = st.i]
             /\ UNCHANGED <<active_sessions, reg_fault>>

\* `yield` returns: the snapshot is taken and the loop runs to its first await
shutdown ==
    /\ sweep.pc = "serving"
    /\ LET items == active_sessions
           st == SweepFrom(items, 1, solver)
       IN  IF st.pc = "clear"
           THEN /\ active_sessions' = <<>>
                /\ sweep' = [pc |-> "done", items |-> items, i |-> st.i]
                /\ UNCHANGED solver
           ELSE /\ solver' = [solver EXCEPT ![items[st.i]] =
                                       close_browser(solver[items[st.i]]).sv]
                /\ sweep' = [pc |-> st.pc, items |-> items, i |-> st.i]
                /\ UNCHANGED active_sessions
    /\ UNCHANGED <<clock, ses, reg_fault, response, call>>

\* browser.close() returned inside the sweep's close_browser
sweep_browser_closed ==
    /\ sweep.pc = "cb_close"
    /\ LET s == sweep.items[sweep.i]
           c == browser_closed(solver[s])
           solv == [solver EXCEPT ![s] = c.sv]
       IN  IF c.at = "cb_stop"
           THEN /\ solver' = solv
                /\ sweep' = [sweep EXCEPT !.pc = "cb_stop"]
                /\ UNCHANGED <<active_sessions, reg_fault>>
           ELSE SweepAdvance(sweep.i + 1, solv)
    /\ UNCHANGED <<clock, ses, response, call>>

\* playwright.stop() returned inside the sweep's close_browser
sweep_playwright_stopped ==
    /\ sweep.pc = "cb_stop"
    /\ LET s == sweep.items[sweep.i]
           c == playwright_stopped(solver[s])
       IN  SweepAdvance(sweep.i + 1, [solver EXCEPT ![s] = c.sv])
    /\ UNCHANGED <<clock, ses, response, call>>

Sweep == shutdown \/ sweep_browser_closed \/ sweep_playwright_stopped

\* ------------------------------------------------------- specifications
\* one session and any endpoint, while the server is serving
Next ==
    \/ Tick(Step(FALSE))
    \/ \E s \in LoopSessions :
         \/ \E url \in Urls : handle_quiz(s, Request(SECRET, EMAIL, url))
         \/ SessionStep(s, FALSE)

Spec == Init /\ [][Next]_vars

\* two sessions and the shutdown, with one quiz URL and an endpoint that
\* gives no reason and accepts after MaxShutdownPosts submissions for a URL
NextShutdown ==
    \/ Tick(Step(TRUE))
    \/ Sweep
    \/ \E s \in Sessions :
         \/ \E url \in ShutdownUrls :
              handle_quiz(s, Request(SECRET, EMAIL, url))
         \/ SessionStep(s, TRUE)

SpecShutdown == Init /\ [][NextShutdown]_vars

\* with the scheduling the event loop gives: time passes, and every awaited
\* call of the session returns
FairSpec ==
    /\ Init /\ [][Next]_vars
    /\ WF_vars(Tick(Step(FALSE)))
    /\ \A s \in LoopSessions : WF_vars(SessionStep(s, FALSE))

\* two sessions and every kind of request, with one quiz URL and the endpoint
\* of SpecShutdown
NextRequests ==
    \/ Tick(Step(TRUE))
    \/ \E s \in Sessions :
         \/ \E req \in Requests(ShutdownUrls) : handle_quiz(s, req)
         \/ SessionStep(s, TRUE)

SpecRequests == Init /\ [][NextRequests]_vars

\* ================================================================ claims
Stepped(s) == ses'[s] # ses[s]

Closing == {"cb_close", "cb_stop", "done"}

Rejected(res) == res.isdict /\ ~res.correct

Accepted(res) == res.isdict /\ res.correct

\* C1: while the current quiz URL stays the same at most 50 answers are
\* submitted for it, and after 50 rejections in a row for a URL the session
\* does not fetch that URL again.
C1_RetryCeiling ==
    \A s \in Sessions :
        /\ ses[s].submitted <= max_retries_safety
        /\ ~(ses[s].submitted = max_retries_safety /\ ses[s].ev.began = "fetch")

\* C2: once the elapsed time has reached the timeout the session begins no
\* further step (page fetch, answer derivation, submission).
C2_NoStepAfterTimeout ==
    \A s \in Sessions : ses[s].ev.began # "none" => ~ses[s].ev.late

\* C3: a rejection with a reason and no (or the same) next URL, before the
\* timeout, appends the reason to the question and re-runs answer derivation
\* for the same page without advancing or terminating; an answer that the
\* re-run derives while the timeout and the retry ceiling are not reached is
\* submitted to the same submit URL for the same quiz URL.
C3_Rederive(s) ==
    ( /\ Stepped(s)
      /\ ses'[s].ev.posted
      /\ Rejected(ses'[s].ev.result)
      /\ ses'[s].ev.result.reason # None
      /\ ses'[s].ev.result.url \in {None, ses[s].current_url}
      /\ ~TimedOut(ses[s], clock') )
    => /\ ses'[s].pc = "retry_solve"
       /\ ses'[s].ev.began = "solve"
       /\ ses'[s].exit = "none"
       /\ ses'[s].question =
             [page |-> ses[s].current_url,
              feedback |-> Append(ses[s].question.feedback,
                                  ses'[s].ev.result.reason)]
       /\ ses'[s].current_url = ses[s].current_url
       /\ ses'[s].submit_url = ses[s].submit_url

C3_Resubmit(s) ==
    ( /\ Stepped(s)
      /\ ses[s].pc = "retry_solve"
      /\ ses'[s].ev.solved \in Answers
      /\ ses[s].retry_count < max_retries_safety
      /\ WithinTimeout(ses[s], clock) )
    => /\ ses'[s].ev.posted
       /\ ses'[s].ev.post = [submit_url |-> ses[s].submit_url,
                             url |-> ses[s].current_url,
                             answer |-> ses'[s].ev.solved]

C3_FeedbackRetry ==
    [][\A s \in Sessions : C3_Rederive(s) /\ C3_Resubmit(s)]_vars

C3_Witness ==
    \E s \in Sessions :
        /\ ses[s].pc = "retry_solve"
        /\ ses[s].retry_count >= 2
        /\ ses[s].ev.posted
        /\ ses[s].ev.result.reason # None
        /\ ses[s].question.feedback # <<>>

C5_ClosedExactlyOnce ==
    \A s \in Sessions :
        \A b \in DOMAIN solver[s].closes :
            /\ solver[s].closes[b] <= 1
            /\ b # solver[s].browser => solver[s].closes[b] = 1

\* C6: no registry operation of the sweep or of a session fails, and when the
\* sweep has finished active_sessions is empty.
C6_RegistryIntegrity ==
    /\ ~reg_fault
    /\ sweep.pc = "done" => active_sessions = <<>>

\* a session removed its record while the sweep was suspended in its loop
C6_Witness ==
    /\ sweep.pc \in {"cb_close", "cb_stop"}
    /\ Len(active_sessions) < Len(sweep.items)
    /\ \E s \in Range(sweep.items) : ses[s].pc = "done"

\* C7: once the shutdown sweep has completed no session holds a browser.
C7_NoBrowserAfterShutdown ==
    sweep.pc = "done" => \A s \in Sessions : solver[s].browser = 0

\* C8: every accepted session eventually has stopped and is out of the
\* registry, whatever the page fetcher, the language model and the endpoint do.
C8_Termination ==
    \A s \in LoopSessions :
        (ses[s].pc # "idle")
            ~> (ses[s].pc = "done" /\ s \notin Range(active_sessions))

\* the session of an endpoint that rejected until the timeout
C8_Witness ==
    \E s \in LoopSessions :
        /\ ses[s].pc = "done"
        /\ ses[s].exit = "timeout"
        /\ ses[s].submitted > max_retries_safety

\* C9: after an accepted submission with a next URL the current URL is that
\* URL and the step the session begins is the fetch of it (none, when the
\* timeout has expired); with no next URL the session terminates as DONE; a
\* session that is DONE begins no fetch or answer derivation and submits
\* nothing; and every submission is for the URL that is current when it is made.
C9_AfterAccept(s) ==
    (Stepped(s) /\ ses'[s].ev.posted /\ Accepted(ses'[s].ev.result))
    => IF ses'[s].ev.result.url # None
       THEN /\ ses'[s].current_url = ses'[s].ev.result.url
            /\ \/ /\ ses'[s].ev.began = "fetch"
                  /\ ses'[s].pc \in {"pw_start", "page"}
                  /\ ses'[s].exit = "none"
               \/ /\ TimedOut(ses[s], clock')
                  /\ ses'[s].ev.began = "none"
                  /\ ses'[s].exit = "timeout"
                  /\ ses'[s].pc \in Closing
       ELSE /\ ses'[s].exit = "completed"
            /\ ses'[s].ev.began = "none"
            /\ ses'[s].pc \in Closing

C9_DoneIsFinal(s) ==
    (Stepped(s) /\ ses[s].exit = "completed")
    => /\ ses'[s].exit = "completed"
       /\ ses'[s].pc \in Closing
       /\ ses'[s].ev.began = "none"
       /\ ~ses'[s].ev.posted

C9_PostIsForCurrent(s) ==
    (Stepped(s) /\ ses'[s].ev.posted)
    => ses'[s].ev.post.url = ses[s].current_url

C9_AcceptedSubmission ==
    [][\A s \in Sessions :
          C9_AfterAccept(s) /\ C9_DoneIsFinal(s) /\ C9_PostIsForCurrent(s)]_vars

C9_Witness ==
    \E s \in Sessions :
        /\ ses[s].ev.posted
        /\ Accepted(ses[s].ev.result)
        /\ ses[s].ev.result.url # None
        /\ ses[s].ev.result.url # ses[s].ev.post.url
        /\ ses[s].ev.began = "fetch"

\* C10: after a rejected submission with a next URL different from the
\* current URL the current URL is that URL, no answer derivation is begun for
\* the rejected question, and the step the session begins is the fetch of the
\* new URL (none, when the timeout has expired); with no next URL or the same
\* URL the current URL stays and no fetch is begun.
C10_AfterReject(s) ==
    (Stepped(s) /\ ses'[s].ev.posted /\ Rejected(ses'[s].ev.result))
    => IF /\ ses'[s].ev.result.url # None
          /\ ses'[s].ev.result.url # ses[s].current_url
       THEN /\ ses'[s].current_url = ses'[s].ev.result.url
            /\ \/ /\ ses'[s].ev.began = "fetch"
                  /\ ses'[s].pc \in {"pw_start", "page"}
               \/ /\ TimedOut(ses[s], clock')
                  /\ ses'[s].ev.began = "none"
                  /\ ses'[s].exit = "timeout"
       ELSE /\ ses'[s].current_url = ses[s].current_url
            /\ ses'[s].ev.began # "fetch"

C10_RejectedWithRedirect ==
    [][\A s \in Sessions : C10_AfterReject(s)]_vars

C10_Witness ==
    \E s \in Sessions :
        /\ ses[s].ev.posted
        /\ Rejected(ses[s].ev.result)
        /\ ses[s].ev.result.url # None
        /\ ses[s].ev.result.url # ses[s].ev.post.url
        /\ ses[s].ev.began = "fetch"
        /\ ses[s].current_url = ses[s].ev.result.url

\* the terminal state of a session whose loop has left: DONE when the chain was
\* followed to its end, FAILED otherwise
Outcome(r) ==
    IF r.pc \notin Closing THEN "RUNNING"
    ELSE IF r.exit = "completed" THEN "DONE" ELSE "FAILED"

\* a step of a session whose loop has left derives no answer, posts nothing,
\* fetches nothing and keeps the outcome
LoopLeft(s) ==
    /\ ses'[s].pc \in Closing
    /\ ses'[s].exit = ses[s].exit
    /\ ses'[s].ev.fetched = "none"
    /\ ses'[s].ev.solved = "none"
    /\ ~ses'[s].ev.posted
    /\ ses'[s].ev.began = "none"

\* C11: a fetch that raises or that returns no question text ends the session
\* as FAILED in that very step, without beginning an answer derivation,
\* without a POST and without another fetch, and no later step of the session
\* fetches, derives or posts
C11_FailedFetch(s) ==
    Stepped(s) /\ ses'[s].ev.fetched \in {"raised", "empty"}
        => /\ Outcome(ses'[s]) = "FAILED"
           /\ ses'[s].ev.began = "none"
           /\ ses'[s].ev.solved = "none"
           /\ ~ses'[s].ev.posted

C11_AfterFailedFetch(s) ==
    Stepped(s) /\ ses[s].exit \in {"fetch_error", "no_question"}
        => LoopLeft(s)

C11_FetchFailureIsTerminal ==
    [][\A s \in Sessions : C11_FailedFetch(s) /\ C11_AfterFailedFetch(s)]_vars

\* a session that fetched a page without question text and is closing
C11_Witness ==
    \E s \in Sessions :
        /\ ses[s].ev.fetched = "empty"
        /\ ses[s].exit = "no_question"
        /\ ses[s].pc \in Closing

\* C12: a null answer from solve_quiz, on the first attempt or on a feedback
\* retry, ends the session as FAILED in that very step without a POST and
\* without a fetch, no later step posts or fetches, and every POST carries a
\* non-null answer
C12_NullAnswer(s) ==
    Stepped(s) /\ ses'[s].ev.solved = None
        => /\ Outcome(ses'[s]) = "FAILED"
           /\ ~ses'[s].ev.posted
           /\ ses'[s].ev.began = "none"

C12_AfterNullAnswer(s) ==
    Stepped(s) /\ ses[s].exit = "null_answer" => LoopLeft(s)

C12_PostedAnswerNotNull(s) ==
    Stepped(s) /\ ses'[s].ev.posted
        => ses'[s].ev.post.answer \notin {None, "none"}

C12_NullAnswerIsTerminal ==
    [][\A s \in Sessions : /\ C12_NullAnswer(s)
                            /\ C12_AfterNullAnswer(s)
                            /\ C12_PostedAnswerNotNull(s)]_vars

\* a feedback retry (a POST for this URL was made before) returned a null
\* answer and the session is closing
C12_Witness ==
    \E s \in Sessions :
        /\ ses[s].ev.solved = None
        /\ ses[s].submitted > 0
        /\ ses[s].exit = "null_answer"
        /\ ses[s].pc \in Closing

\* C15: a POST /quiz whose secret or email differs from the configured one is
\* rejected and constructs no QuizSolver, adds no registry record and starts
\* no task; a request with both matching is answered 200 and adds exactly one
\* record, one QuizSolver and one task, and that task has run no step when the
\* response is returned
Matching(req) ==
    req.kind = "request" /\ req.secret = SECRET /\ req.email = EMAIL

Answered ==
    \/ response' # response
    \/ \E s \in Sessions : ses[s].pc = "idle" /\ ses'[s].pc # "idle"

TaskCreated(s) ==
    /\ ses[s].pc = "idle"
    /\ ~solver[s].made
    /\ s \notin Range(active_sessions)
    /\ ses'[s] = [IdleSession EXCEPT !.pc = "accepted",
                                     !.start_time = clock,
                                     !.current_url = ses'[s].current_url]
    /\ ses'[s].current_url \in Urls
    /\ solver'[s] = NewSolver
    /\ active_sessions' = Append(active_sessions, s)
    /\ \A t \in Sessions \ {s} : ses'[t] = ses[t] /\ solver'[t] = solver[t]

C15_RequestGate ==
    [][Answered =>
         IF Matching(response'.request)
         THEN /\ response'.status = 200
              /\ \E s \in Sessions : TaskCreated(s)
         ELSE /\ response'.status \in {400, 403}
              /\ UNCHANGED <<active_sessions, ses, solver>>]_vars

\* a request with the configured secret and another email was rejected while
\* an accepted session is running
C15_Witness ==
    /\ response.status = 403
    /\ response.request.secret = SECRET
    /\ response.request.email # EMAIL
    /\ \E s \in Sessions : ses[s].pc \notin {"idle", "done"}

\* a second matching request was accepted while the first session is running
C15_WitnessAccepted ==
    /\ response.status = 200
    /\ ses["s2"].pc = "accepted"
    /\ ses["s1"].pc \notin {"idle", "accepted", "done"}
    /\ Len(active_sessions) = 2

\* ===================================================== QuizSolver.submit_answer
\* the longest sequence or mapping inside an answer, the longest answer, and
\* how far the payload sizes tried lie from the limit
MaxInner == 2
MaxOuter == 1
MaxOver == 1

\* 1024 * 1024                                          quiz_solver.py 795
PAYLOAD_LIMIT == 1024 * 1024

\* ---------------------------------------------------------- answer values
\* an answer value: t is its Python type, v its text, n the number of
\* characters of a string, items the members of a list or the values of a
\* dict (whose keys are "k1", "k2", ...)
Leaf(t, v, n) == [t |-> t, v |-> v, n |-> n, items |-> <<>>]
ListOf(items) == [t |-> "list", v |-> "", n |-> 0, items |-> items]
DictOf(items) == [t |-> "dict", v |-> "", n |-> 0, items |-> items]

Num == Leaf("int", "42", 0)
Str(n) == Leaf("str", "x", n)
True == Leaf("bool", "true", 0)
Null == Leaf("NoneType", "null", 0)
NaN == Leaf("float", "nan", 0)
\* a value of another type without to_dict, e.g. a datetime
Obj == Leaf("datetime", "2024-01-02 00:00:00", 0)

\* the function raised
Raised == Leaf("raise", "ValueError", 0)

SeqsUpTo(S, n) == UNION {[1..k -> S] : k \in 0..n}

Cells == {Num, Str(1), NaN}
Leaves == {Num, Str(1), True, Null, NaN, Obj}
Inner ==
    {ListOf(c) : c \in SeqsUpTo(Cells, MaxInner)}
    \cup {DictOf(c) : c \in SeqsUpTo(Cells, MaxInner)}
Outer ==
    {ListOf(c) : c \in SeqsUpTo(Leaves \cup Inner, MaxOuter)}
    \cup {DictOf(c) : c \in SeqsUpTo(Leaves \cup Inner, MaxOuter)}

\* ------------------------------------------------------------ pandas.isna
\* `if pd.isna(value)`: isna of a scalar is a bool; isna of a list is an array
\* of bools, whose truth value is that of its only element, raises ValueError
\* with more than one element, and with no element is False (numpy before
\* 2.2, lib "old") or raises (lib "new"); isna of a dict is False
IfIsna(value, lib) ==
    IF value.t = "list"
    THEN IF Len(value.items) = 0
         THEN IF lib = "old" THEN "false" ELSE "raise"
         ELSE IF Len(value.items) > 1 THEN "raise"
         ELSE IF value.items[1].t = "NoneType" \/ value.items[1] = NaN
         THEN "true" ELSE "false"
    ELSE IF value.t = "NoneType" \/ value = NaN THEN "true" ELSE "false"

\* ---------------------------------- _clean_list_for_json, _clean_dict_for_json
RECURSIVE clean_list_for_json(_, _)
RECURSIVE clean_dict_for_json(_, _)

\* the body of the loop of both functions
CleanValue(value, lib) ==
    LET na == IfIsna(value, lib)
    IN  IF na = "raise" THEN Raised
        ELSE IF na = "true" THEN Null
        ELSE IF value.t = "dict" THEN clean_dict_for_json(value, lib)
        ELSE IF value.t = "list" THEN clean_list_for_json(value, lib)
        ELSE IF value.t \in {"str", "int", "float", "bool", "NoneType"}
        THEN value
        ELSE Leaf("str", value.v, Len(value.v))

clean_list_for_json(data, lib) ==
    LET cleaned == [i \in 1..Len(data.items) |-> CleanValue(data.items[i], lib)]
    IN  IF \E i \in 1..Len(cleaned) : cleaned[i] = Raised
        THEN Raised ELSE ListOf(cleaned)

clean_dict_for_json(data, lib) ==
    LET cleaned == [i \in 1..Len(data.items) |-> CleanValue(data.items[i], lib)]
    IN  IF \E i \in 1..Len(cleaned) : cleaned[i] = Raised
        THEN Raised ELSE DictOf(cleaned)

\* _format_answer
format_answer(answer, lib) ==
    IF answer.t = "NoneType" THEN answer
    ELSE IF answer.t = "list" THEN clean_list_for_json(answer, lib)
    ELSE IF answer.t = "dict" THEN clean_dict_for_json(answer, lib)
    ELSE IF answer.t \in {"str", "int", "float", "bool"} THEN answer
    ELSE Leaf("str", answer.v, Len(answer.v))

\* --------------------------------------------------------------- json.dumps
RECURSIVE SumLen(_, _)
RECURSIVE JsonLen(_)

\* the number of characters of json.dumps(value), with its separators ", "
\* and ": "; a NaN is written NaN
JsonLen(value) ==
    IF value.t = "str" THEN value.n + 2
    ELSE IF value.t = "int" THEN Len(value.v)
    ELSE IF value.t = "float" THEN Len("NaN")
    ELSE IF value.t \in {"bool", "NoneType"} THEN Len(value.v)
    ELSE IF value.t = "list"
    THEN 2 + SumLen(value.items, 0)
    ELSE 2 + SumLen(value.items, Len("\"k1\": "))

SumLen(items, key) ==
    IF Len(items) = 0 THEN 0
    ELSE key + JsonLen(Head(items))
         + (IF Len(items) > 1 THEN Len(", ") ELSE 0)
         + SumLen(Tail(items), key)

RECURSIVE HasNaN(_)
HasNaN(value) ==
    \/ value = NaN
    \/ \E i \in 1..Len(value.items) : HasNaN(value.items[i])

\* len(json.dumps(payload).encode('utf-8')): the text is ASCII
PayloadSize(email, secret, url, formatted_answer) ==
    Len("{\"email\": \"\", \"secret\": \"\", \"url\": \"\", \"answer\": }")
    + Len(email) + Len(secret) + Len(url) + JsonLen(formatted_answer)

\* mutant: a payload of exactly the limit is refused
TooLargeInclusive(payload_size) == payload_size >= PAYLOAD_LIMIT

\* payload_size > 1024 * 1024
TooLarge(payload_size) == payload_size > PAYLOAD_LIMIT

\* ------------------------------------------------------- the endpoint's reply
ReplyKeys == {"correct", "url", "reason"}

\* what requests.post and response.json() give: a transport error, a status
\* that is not 2xx, a body that is not JSON, or a JSON body: an object with
\* some of the three keys, an array with some of the three words as elements,
\* a string with some of the three words in it, a number, or null
Bodies ==
    {[kind |-> k, keys |-> {}, correct |-> FALSE] :
        k \in {"transport", "status", "not_json", "number", "null"}}
    \cup {[kind |-> k, keys |-> ks, correct |-> FALSE] :
            k \in {"array", "string"}, ks \in {{}, {"correct"}, ReplyKeys}}
    \cup {[kind |-> "object", keys |-> ks, correct |-> c] :
            ks \in {{}, {"url"}, {"correct"}, ReplyKeys}, c \in BOOLEAN}

\* the value submit_answer returns: a dict with the normalised keys, or the
\* array or string of the body itself
Returned(kind, correct, url, reason, error) ==
    [kind |-> kind, correct |-> correct, url |-> url, reason |-> reason,
     error |-> error]

RequestFailed == Returned("dict", FALSE, None, "Request failed: e", "e")

\* the try block after requests.post returned or raised
AfterPost(body) ==
    IF body.kind \in {"transport", "status", "not_json"}
    THEN RequestFailed
    ELSE IF body.kind \in {"number", "null"}
    THEN RequestFailed                \* `"correct" not in result`: TypeError
    ELSE IF body.kind \in {"array", "string"}
    THEN IF body.keys = ReplyKeys
         THEN Returned(body.kind, FALSE, None, None, None)
         ELSE RequestFailed           \* result["correct"] = False: TypeError
    ELSE Returned("dict",
                  IF "correct" \in body.keys THEN body.correct ELSE FALSE,
                  IF "url" \in body.keys THEN "https://q/next" ELSE None,
                  IF "reason" \in body.keys THEN "wrong format" ELSE None,
                  None)

\* submit_answer: raised, or the number of calls of requests.post and the
\* value returned
SubmitAnswer(email, secret, quiz_url, answer, body, lib) ==
    LET formatted_answer == format_answer(answer, lib)
        payload_size == PayloadSize(email, secret, quiz_url, formatted_answer)
    IN  IF formatted_answer = Raised
        THEN [raised |-> TRUE, posts |-> 0, size |-> 0,
              result |-> Returned("none", FALSE, None, None, None)]
        ELSE IF TooLarge(payload_size)
        THEN [raised |-> FALSE, posts |-> 0, size |-> payload_size,
              result |-> Returned("dict", FALSE, None,
                                  "Payload size exceeds 1MB limit",
                                  "Payload too large")]
        ELSE IF lib = "new" /\ HasNaN(formatted_answer)
        THEN \* requests.post refuses to encode NaN: InvalidJSONError, caught
             [raised |-> FALSE, posts |-> 1, size |-> payload_size,
              result |-> RequestFailed]
        ELSE [raised |-> FALSE, posts |-> 1, size |-> payload_size,
              result |-> AfterPost(body)]

\* the string answer with which the payload has d bytes more than the limit
StrAtLimit(email, secret, url, d) ==
    Str(PAYLOAD_LIMIT + d - PayloadSize(email, secret, url, Str(0)))

SubmitAnswers ==
    Leaves \cup Outer
    \cup {StrAtLimit(EMAIL, SECRET, u, d) :
            u \in ShutdownUrls, d \in (0 - MaxOver)..MaxOver}

\* one call of submit_answer with an answer, an endpoint behaviour and a
\* generation of the libraries
submit_answer_called ==
    /\ call.op = "none"
    /\ \E answer \in SubmitAnswers, body \in Bodies, lib \in {"old", "new"},
          url \in ShutdownUrls :
         call' = [op |-> "submit_answer", pc |-> "returned",
                  answer |-> answer, body |-> body, lib |-> lib,
                  out |-> SubmitAnswer(EMAIL, SECRET, url, answer, body, lib)]
    /\ UNCHANGED <<clock, active_sessions, ses, solver, sweep, reg_fault,
                   response>>

\* the caller has taken the result
call_returned ==
    /\ call.op # "none"
    /\ call.pc = "returned"
    /\ call' = NoCall
    /\ UNCHANGED <<clock, active_sessions, ses, solver, sweep, reg_fault,
                   response>>

NextSubmit == submit_answer_called \/ call_returned

SpecSubmit == Init /\ [][NextSubmit]_vars

Called(op) == call.op = op

\* C13: submit_answer never raises and returns an outcome (a dict) for every
\* answer value and every endpoint behaviour, and the outcome of a failure
\* has correct=false and the error text as reason
C13_SubmitNeverRaises ==
    Called("submit_answer")
        => /\ ~call.out.raised
           /\ call.out.result.kind = "dict"
           /\ call.out.result.error # None
                => /\ call.out.result.correct = FALSE
                   /\ call.out.result.reason \notin {None, ""}

\* C14: a payload of more than 1 MiB is not posted and gives correct=false
\* with a reason that mentions the size; a payload of 1 MiB or less is posted
SizeMentioned(reason) == reason = "Payload size exceeds 1MB limit"

C14_PayloadSizeGuard ==
    Called("submit_answer") /\ ~call.out.raised
        => IF call.out.size > 1048576
           THEN /\ call.out.posts = 0
                /\ call.out.result.kind = "dict"
                /\ call.out.result.correct = FALSE
                /\ SizeMentioned(call.out.result.reason)
           ELSE /\ ~SizeMentioned(call.out.result.reason)
                /\ call.out.posts = 1

\* a call whose payload has exactly 1 MiB was posted
C14_Witness ==
    /\ Called("submit_answer")
    /\ call.out.size = 1048576
    /\ call.out.posts = 1

\* a call whose payload has 1 MiB and one byte was refused
C14_WitnessRefused ==
    /\ Called("submit_answer")
    /\ call.out.size = 1048577
    /\ call.out.posts = 0

\* ======================================================= GroqClient.solve_quiz
\* the longest completion, in tokens
MaxText == 2

\* max_retries = 3                                      llm_client.py 45
max_retries == 3

available_models ==
    <<"llama-3.1-8b-instant", "llama-3.1-70b-versatile", "mixtral-8x7b-32768",
      "gemma2-9b-it">>

\* a completion is a sequence of tokens: blanks, line ends and words
Blank == {" ", "\n"}
Tokens == Blank \cup {"yes", "42", "fine"}
Texts == SeqsUpTo(Tokens, MaxText)

\* message.content is a text, or None (TextNone)
TextNone == <<"None">>

\* str.strip()
RECURSIVE LStrip(_)
LStrip(text) ==
    IF Len(text) > 0 /\ Head(text) \in Blank THEN LStrip(Tail(text)) ELSE text

RECURSIVE RStrip(_)
RStrip(text) ==
    IF Len(text) > 0 /\ text[Len(text)] \in Blank
    THEN RStrip(SubSeq(text, 1, Len(text) - 1)) ELSE text

Strip(text) == RStrip(LStrip(text))

\* str.find of a word: the first position, 0 when absent
Find(text, word) ==
    IF \E i \in 1..Len(text) : text[i] = word
    THEN CHOOSE i \in 1..Len(text) :
            text[i] = word /\ \A j \in 1..(i - 1) : text[j] # word
    ELSE 0

\* an answer: null, a number, a boolean or a text
AnswerNull == [kind |-> "null", text |-> <<>>]
AnswerOf(kind, text) == [kind |-> kind, text |-> text]

\* _extract_answer for a question without the keywords of the special cases;
\* numeric: the question has one of the numeric keywords.  Of the patterns
\* only the number, the boolean, the first line and the whole text can match
\* a text of these tokens
extract_answer(completion, numeric) ==
    LET response_text == Strip(completion)
        line_end == Find(response_text, "\n")
        first_line == Strip(SubSeq(response_text, 1, line_end - 1))
    IN  IF numeric /\ Find(response_text, "42") # 0
        THEN AnswerOf("int", <<"42">>)
        ELSE IF Find(response_text, "yes") # 0
        THEN AnswerOf("bool", <<"True">>)
        ELSE IF line_end # 0 /\ Len(first_line) > 0
        THEN AnswerOf("str", first_line)
        ELSE IF Len(response_text) > 0
        THEN AnswerOf("str", response_text)
        ELSE AnswerNull

\* what str(e) says of an exception of the completion request: a status code
\* and a phrase
Errors ==
    {[code |-> c, phrase |-> ph] :
        c \in {"429", "500"},
        ph \in {"rate limit", "Rate Limit", "connection reset"}}

NoError == [code |-> "", phrase |-> ""]

\* str.lower() on the phrases
Lower(phrase) == IF phrase = "Rate Limit" THEN "rate limit" ELSE phrase

\* mutant: only the status code is looked at
RateLimitShapedByCode(e) == e.code = "429"

\* "429" in error_str or "rate limit" in error_str.lower()
RateLimitShaped(e) == e.code = "429" \/ Lower(e.phrase) = "rate limit"

\* _rotate_model, on the index of current_model in available_models
rotate_model(current_index) == (current_index % Len(available_models)) + 1

\* the dict solve_quiz returns: the answer and the reasoning, a text
LlmResult(answer, reasoning) == [answer |-> answer, reasoning |-> reasoning]
NoLlmResult == LlmResult(AnswerNull, <<"not returned">>)

\* solve_quiz is called: current_model is whatever earlier calls left
llm_called ==
    /\ call.op = "none"
    /\ \E m \in 1..Len(available_models), numeric \in BOOLEAN :
         call' = [op |-> "solve_quiz", pc |-> "request", attempt |-> 0,
                  requests |-> 0, current_model |-> m, numeric |-> numeric,
                  last |-> "none", error |-> NoError,
                  result |-> NoLlmResult]
    /\ UNCHANGED <<clock, active_sessions, ses, solver, sweep, reg_fault,
                   response>>

LlmAt(pc) == call.op = "solve_quiz" /\ call.pc = pc

\* the head of `for attempt in range(max_retries)` and the request
completion_requested ==
    /\ LlmAt("request")
    /\ IF call.attempt < max_retries
       THEN call' = [call EXCEPT !.pc = "await", !.requests = @ + 1,
                                 !.last = "request"]
       ELSE call' = [call EXCEPT
                        !.pc = "returned", !.last = "exhausted",
                        !.result = LlmResult(AnswerNull,
                            <<"Failed to get response from Groq API after retries">>)]
    /\ UNCHANGED <<clock, active_sessions, ses, solver, sweep, reg_fault,
                   response>>

\* the except branch, for the text str(e) tells
AfterError(c, e) ==
    IF RateLimitShaped(e)
    THEN IF c.attempt < max_retries - 1
         THEN [c EXCEPT !.pc = "request", !.attempt = @ + 1,
                        !.current_model = rotate_model(@)]
         ELSE [c EXCEPT !.pc = "returned",
                        !.result = LlmResult(AnswerNull,
                                      <<"Rate limit exceeded after retries">>)]
    ELSE [c EXCEPT !.pc = "returned",
                   !.result = LlmResult(AnswerNull,
                                        <<"Groq API error: ", e.phrase>>)]

\* the request returned a completion: len(answer_text) raises on None, in the
\* try block
completion_returned ==
    /\ LlmAt("await")
    /\ \E text \in Texts \cup {TextNone} :
         call' = IF text = TextNone
                 THEN [call EXCEPT
                          !.pc = "returned", !.last = "no_content",
                          !.result = LlmResult(AnswerNull,
                              <<"Groq API error: ",
                                "object of type 'NoneType' has no len()">>)]
                 ELSE [call EXCEPT
                          !.pc = "returned", !.last = "completion",
                          !.result = LlmResult(
                              extract_answer(text, call.numeric), text)]
    /\ UNCHANGED <<clock, active_sessions, ses, solver, sweep, reg_fault,
                   response>>

\* the request raised
completion_raised ==
    /\ LlmAt("await")
    /\ \E e \in Errors :
         call' = [AfterError(call, e) EXCEPT !.error = e, !.last = "raised"]
    /\ UNCHANGED <<clock, active_sessions, ses, solver, sweep, reg_fault,
                   response>>

\* QuizSolver.solve_quiz hands the answer and the reasoning of the client on
solve_quiz_result(result) ==
    [answer |-> result.answer, reasoning |-> result.reasoning]

NextLlm ==
    \/ llm_called
    \/ completion_requested
    \/ completion_returned
    \/ completion_raised
    \/ call_returned

SpecLlm == Init /\ [][NextLlm]_vars

\* C16: a result of GroqClient.solve_quiz, and the result QuizSolver.solve_quiz
\* makes of it, whose answer is null has a reasoning that is not empty, also
\* for an empty or blank completion
C16_NullAnswerHasReasoning ==
    LlmAt("returned") /\ call.result.answer = AnswerNull
        => /\ Len(call.result.reasoning) > 0
           /\ Len(solve_quiz_result(call.result).reasoning) > 0

\* C17: a call makes at most 3 completion requests; a request that raises a
\* rate-limit-shaped error before the third request switches current_model to
\* the next of the four models, cyclically, and the next step of the call is
\* another request; a rate-limit-shaped error of the third request, and every
\* other error, returns a null answer, and a call that returned makes no
\* request
Shaped(e) == e.code = "429" \/ e.phrase \in {"rate limit", "Rate Limit"}

LlmStep == call.op = "solve_quiz" /\ call'.op = "solve_quiz" /\ call' # call

C17_AfterError ==
    LlmStep /\ call.pc = "await" /\ call'.last = "raised"
        => IF Shaped(call'.error) /\ call.requests < 3
           THEN /\ call'.current_model =
                      (IF call.current_model = 4 THEN 1
                       ELSE call.current_model + 1)
                /\ call'.pc = "request"
           ELSE /\ call'.pc = "returned"
                /\ call'.result.answer = AnswerNull
                /\ call'.current_model = call.current_model

C17_RetryIsRequest ==
    LlmStep /\ call.pc = "request" /\ call.last = "raised"
        => call'.requests = call.requests + 1 /\ call'.pc = "await"

C17_Requests ==
    /\ call.op = "solve_quiz" /\ call' # call /\ call.pc = "returned"
         => call' = NoCall
    /\ call'.op = "solve_quiz" => call'.requests <= 3

C17_RetryPolicy ==
    [][C17_AfterError /\ C17_RetryIsRequest /\ C17_Requests]_vars

\* the third request raised a rate-limit-shaped error after two rotations
\* from the last model, and the call returned
C17_Witness ==
    /\ LlmAt("returned")
    /\ call.requests = 3
    /\ call.last = "raised"
    /\ Shaped(call.error)
    /\ call.current_model = 2

\* ============================================ QuizSolver._parse_question_enhanced
\* the most keywords in one question
MaxWords == 3

\* the words and fragments the classifier looks for
Keywords ==
    {"command", "uv http get", "git", "markdown", ".md", "link", "audio",
     ".opus", ".mp3", ".wav", "heatmap", ".png", "color", "frequent",
     "normalize", "csv", "invoice", "pdf", "github api", "api.github.com",
     "download", "sum", "count", "calculate"}

\* a question text: the keywords that occur in it, and whether it is written
\* in capitals
Questions ==
    {[words |-> w, capitals |-> c] :
        w \in {x \in SUBSET Keywords : Cardinality(x) <= MaxWords},
        c \in BOOLEAN}

\* the keywords a fragment has inside it
Inside(fragment) ==
    IF fragment \in {"github api", "api.github.com"}
    THEN {fragment, "git"} ELSE {fragment}

\* `word in question_lower`
InLower(word, question) == \E k \in question.words : word \in Inside(k)

\* `word in question`: the text as written
InRaw(word, question) == ~question.capitals /\ InLower(word, question)

task_info0 ==
    [question_type |-> None, command_type |-> None, needs_data |-> FALSE,
     data_type |-> None, operation |-> None]

\* the if/elif chain over the categories
ParseCategory(q) ==
    IF InLower("command", q)
    THEN [task_info0 EXCEPT
             !.question_type = "command",
             !.command_type = IF InLower("uv http get", q) THEN "uv_http"
                              ELSE IF InLower("git", q) THEN "git" ELSE None]
    ELSE IF InLower("markdown", q) \/ (InLower(".md", q) /\ InLower("link", q))
    THEN [task_info0 EXCEPT !.question_type = "markdown_link"]
    ELSE IF InLower("audio", q)
            \/ \E ext \in {".opus", ".mp3", ".wav"} : InLower(ext, q)
    THEN [task_info0 EXCEPT !.needs_data = TRUE, !.data_type = "audio"]
    ELSE IF (InLower("heatmap", q) \/ InLower(".png", q)) /\ InLower("color", q)
    THEN [task_info0 EXCEPT
             !.needs_data = TRUE, !.data_type = "image",
             !.operation = IF InLower("frequent", q) /\ InLower("color", q)
                           THEN "dominant_color" ELSE None]
    ELSE IF InLower("normalize", q) /\ InLower("csv", q)
    THEN [task_info0 EXCEPT !.needs_data = TRUE, !.data_type = "csv",
                            !.operation = "normalize"]
    ELSE IF InLower("invoice", q) /\ InLower("pdf", q)
    THEN [task_info0 EXCEPT !.needs_data = TRUE, !.data_type = "pdf_invoice"]
    ELSE IF InLower("github api", q) \/ InRaw("api.github.com", q)
    THEN [task_info0 EXCEPT !.needs_data = TRUE, !.data_type = "github_api",
                            !.operation = "count"]
    ELSE IF InLower("download", q) \/ InLower("csv", q)
    THEN [task_info0 EXCEPT !.needs_data = TRUE, !.data_type = "file"]
    ELSE task_info0

\* the if/elif chain over the operations, after the categories
ParseOperation(task_info, q) ==
    IF InLower("sum", q) THEN [task_info EXCEPT !.operation = "sum"]
    ELSE IF InLower("count", q) THEN [task_info EXCEPT !.operation = "count"]
    ELSE IF InLower("calculate", q)
    THEN [task_info EXCEPT !.operation = "calculate"]
    ELSE task_info

parse_question_enhanced(q) == ParseOperation(ParseCategory(q), q)

\* the category under which solve_quiz and _fetch_and_process_data treat a
\* descriptor: the first of their tests that it passes
RoutedCategory(task_info) ==
    IF task_info.question_type = "command" THEN "command"
    ELSE IF task_info.question_type = "markdown_link" THEN "markdown_link"
    ELSE IF task_info.data_type = "image"
            /\ task_info.operation = "dominant_color"
    THEN "image_dominant_color"
    ELSE IF task_info.operation = "normalize" /\ task_info.data_type = "csv"
    THEN "csv_normalization"
    ELSE IF task_info.data_type = "pdf_invoice" THEN "pdf_invoice"
    ELSE IF task_info.data_type = "github_api" THEN "github_tree_count"
    ELSE IF task_info.data_type = "audio" THEN "audio_transcription"
    ELSE IF task_info.needs_data /\ task_info.data_type = "file"
    THEN "generic_file_fetch"
    ELSE "unclassified"

\* one call of the classifier
parse_question_called ==
    /\ call.op = "none"
    /\ \E q \in Questions :
         call' = [op |-> "parse_question", pc |-> "returned", question |-> q,
                  out |-> parse_question_enhanced(q)]
    /\ UNCHANGED <<clock, active_sessions, ses, solver, sweep, reg_fault,
                   response>>

NextClassify == parse_question_called \/ call_returned

SpecClassify == Init /\ [][NextClassify]_vars

\* C18: the descriptor of a question is of exactly one category, the first in
\* the order command, markdown_link, audio_transcription,
\* image_dominant_color, csv_normalization, pdf_invoice, github_tree_count,
\* generic_file_fetch whose pattern (matched without regard to case) the
\* question matches, and unclassified when it matches none
Has(word) == \E k \in call.question.words : word \in Inside(k)

FirstMatch ==
    IF Has("command") THEN "command"
    ELSE IF Has("markdown") \/ (Has(".md") /\ Has("link"))
    THEN "markdown_link"
    ELSE IF Has("audio") \/ Has(".opus") \/ Has(".mp3") \/ Has(".wav")
    THEN "audio_transcription"
    ELSE IF (Has("heatmap") \/ Has(".png")) /\ Has("color")
    THEN "image_dominant_color"
    ELSE IF Has("normalize") /\ Has("csv") THEN "csv_normalization"
    ELSE IF Has("invoice") /\ Has("pdf") THEN "pdf_invoice"
    ELSE IF Has("github api") \/ Has("api.github.com")
    THEN "github_tree_count"
    ELSE IF Has("download") \/ Has("csv") THEN "generic_file_fetch"
    ELSE "unclassified"

C18_FirstMatchingCategory ==
    Called("parse_question") => RoutedCategory(call.out) = FirstMatch

\* ============================================= QuizSolver._extract_command_answer
\* the most fragments in the query of the URL of a question
MaxQuery == 3

\* a question is a sequence of fragments.  A uv question: the words that make
\* it a uv_http command, a .json URL, the fragments of its query, and a tail
Placeholder == "<your email>"
QueryFragments == {"?", "&", "email=", Placeholder, "you@x.test", "x=1"}

UvHead ==
    <<"Run this command: uv http get", " ", "https://", "x.test/project2/uv",
      ".json">>

UvTails ==
    {<<>>, <<" ", "with Accept: application/json">>, <<" ", "-v">>,
     <<" ", "with email = ", Placeholder>>}

UvQuestions ==
    {UvHead \o query \o tail :
        query \in SeqsUpTo(QueryFragments, MaxQuery), tail \in UvTails}

\* the characters [^\s<>"'] of the URL patterns: the fragments made of them
UrlChars(fragment) ==
    fragment \in (QueryFragments \ {Placeholder})
                 \cup {"https://", "x.test/project2/uv", ".json"}

\* `text in question.lower()`, for the texts the extractor looks for
MentionedLower(text, question) ==
    \E i \in 1..Len(question) :
        \/ question[i] = text
        \/ text \in {"accept", "application/json"}
              /\ question[i] = "with Accept: application/json"
        \/ text = "email = " /\ question[i] = "with email = "

\* re.search(r'https?://[^\s<>"\']+\.json[^\s<>"\']*', question): from the
\* scheme, over the fragments of URL characters, as far as they go
RECURSIVE UrlRun(_)
UrlRun(fragments) ==
    IF Len(fragments) = 0 \/ ~UrlChars(Head(fragments)) THEN <<>>
    ELSE <<Head(fragments)>> \o UrlRun(Tail(fragments))

UrlMatch(question) ==
    LET start == Find(question, "https://")
        run == IF start = 0 THEN <<>>
               ELSE UrlRun(SubSeq(question, start, Len(question)))
    IN  IF Find(run, ".json") = 0 THEN <<>> ELSE run

\* str.replace(old, new)
Replace(text, old, new) ==
    [i \in 1..Len(text) |-> IF text[i] = old THEN new ELSE text[i]]

\* the fragments after an email= up to the next &: what [^&]+ matches
RECURSIVE AfterValue(_)
AfterValue(fragments) ==
    IF Len(fragments) = 0 \/ Head(fragments) = "&" THEN fragments
    ELSE AfterValue(Tail(fragments))

\* re.sub(r'email=[^&]+', f'email={email}', url): an email= with nothing
\* after it, or with & after it, is not matched
RECURSIVE SubEmail(_, _)
SubEmail(url, email) ==
    IF Len(url) = 0 THEN <<>>
    ELSE IF Head(url) = "email=" /\ Len(url) > 1 /\ url[2] # "&"
    THEN <<"email=", email>> \o SubEmail(AfterValue(Tail(url)), email)
    ELSE <<Head(url)>> \o SubEmail(Tail(url), email)

\* the URL of the command, from the URL matched
CommandUrl(question, url, email) ==
    IF Find(url, "email=") # 0 \/ MentionedLower("email = ", question)
    THEN LET replaced ==
                 IF MentionedLower(Placeholder, question)
                 THEN Replace(url, Placeholder, email) ELSE url
         IN  IF Find(replaced, "email=") = 0
             THEN replaced
                  \o <<IF Find(replaced, "?") # 0 THEN "&" ELSE "?",
                       "email=", email>>
             ELSE SubEmail(replaced, email)
    ELSE url

\* the text of a sequence of fragments
RECURSIVE Text(_)
Text(fragments) ==
    IF Len(fragments) = 0 THEN ""
    ELSE Head(fragments) \o Text(Tail(fragments))

\* _extract_command_answer for command_type uv_http: the command, "None" when
\* no URL is found
extract_command_answer(question, email) ==
    LET url == UrlMatch(question)
    IN  IF url = <<>> THEN None
        ELSE "uv http get \"" \o Text(CommandUrl(question, url, email))
             \o "\""
             \o (IF MentionedLower("accept", question)
                    /\ MentionedLower("application/json", question)
                 THEN " -H \"Accept: application/json\"" ELSE "")
             \o (IF Find(question, "-v") # 0 THEN " -v" ELSE "")

\* one call of the extractor with the configured email
extract_command_called ==
    /\ call.op = "none"
    /\ \E question \in UvQuestions :
         call' = [op |-> "extract_command", pc |-> "returned",
                  question |-> question,
                  out |-> extract_command_answer(question, EMAIL)]
    /\ UNCHANGED <<clock, active_sessions, ses, solver, sweep, reg_fault,
                   response>>

NextCommand == extract_command_called \/ call_returned

SpecCommand == Init /\ [][NextCommand]_vars

\* C19: for a uv question whose URL ends in the query email=<your email>, the
\* command is uv http get "<the URL with the configured email for the
\* placeholder>", followed by -H "Accept: application/json" when the
\* question mentions the header; for the question of the example it is
\* uv http get "https://x.test/project2/uv.json?email=a@b.com" -H "Accept: application/json"
EndsInPlaceholder(question) ==
    \E i \in (Len(UvHead) + 3)..Len(question) :
        /\ question[i] = Placeholder
        /\ question[i - 1] = "email="
        /\ question[i - 2] \in {"?", "&"}
        /\ \A j \in (Len(UvHead) + 1)..(i - 1) : UrlChars(question[j])
        /\ i = Len(question) \/ question[i + 1] = " "

ExpectedCommand(question) ==
    LET i == Find(question, Placeholder)
    IN  "uv http get \"" \o Text(SubSeq(question, 3, i - 1)) \o EMAIL \o "\""
        \o (IF Find(question, "with Accept: application/json") # 0
            THEN " -H \"Accept: application/json\"" ELSE "")
        \o (IF Find(question, "-v") # 0 THEN " -v" ELSE "")

ExampleQuestion ==
    UvHead \o <<"?", "email=", Placeholder>>
           \o <<" ", "with Accept: application/json">>

C19_UvCommand ==
    /\ Called("extract_command") /\ EndsInPlaceholder(call.question)
         => call.out = ExpectedCommand(call.question)
    /\ Called("extract_command") /\ call.question = ExampleQuestion
         => call.out = "uv http get \"https://x.test/project2/uv.json?email=a@b.com\" -H \"Accept: application/json\""

\* =============================================== QuizSolver._process_pdf_invoice
\* the most lines in the text of an invoice
MaxLines == 4

\* a line of the PDF text: the keyword in it ("quantity": one of the header
\* words, "total": one of the closing words, "invoice": one of the words of
\* the invoice's own data, "": none) and the numbers \d+\.?\d* finds in it,
\* in hundredths (the first of a line is a whole number)
LineNumbers ==
    {<<>>, <<300, 1000>>, <<200, 500>>, <<0, 1000>>, <<100000, 1000>>,
     <<100100, 1000>>, <<300, 1000000>>, <<300, 1000100, 700>>}

Lines ==
    {[word |-> "", numbers |-> n] : n \in LineNumbers}
    \cup {[word |-> w, numbers |-> n] :
            w \in {"quantity", "total", "invoice"},
            n \in {<<>>, <<300, 1000>>}}

InvoiceTexts == SeqsUpTo(Lines, MaxLines)

\* the sanity checks, in hundredths: 0 < quantity <= 1000 and
\* 0 < unit_price <= 10000
Sane(quantity, unit_price) ==
    /\ 0 < quantity /\ quantity <= 1000 * 100
    /\ 0 < unit_price /\ unit_price <= 10000 * 100

\* quantity * unit_price in hundredths, of two numbers in hundredths
Times(quantity, unit_price) ==
    (quantity \div 100) * unit_price + ((quantity % 100) * unit_price) \div 100

\* quantity * unit_price of a line; 0 when the line has fewer than two
\* numbers or fails the sanity checks
LineTotal(line) ==
    IF Len(line.numbers) >= 2 /\ Sane(line.numbers[1], line.numbers[2])
    THEN Times(line.numbers[1], line.numbers[2])
    ELSE 0

\* the loop over the lines
RECURSIVE InvoiceLoop(_, _, _)
InvoiceLoop(lines, in_items, total) ==
    IF Len(lines) = 0 THEN total
    ELSE LET line == Head(lines)
         IN  IF line.word = "quantity"
             THEN InvoiceLoop(Tail(lines), TRUE, total)
             ELSE IF line.word = "total"
             THEN total
             ELSE IF in_items \/ line.word # "invoice"
             THEN InvoiceLoop(Tail(lines), in_items, total + LineTotal(line))
             ELSE InvoiceLoop(Tail(lines), in_items, total)

\* the total of the invoice, in hundredths: round(total, 2) of a sum of
\* products of whole quantities and prices in hundredths is that sum
process_pdf_invoice(lines) == InvoiceLoop(lines, FALSE, 0)

\* one call of the extractor on the text of a PDF
process_pdf_invoice_called ==
    /\ call.op = "none"
    /\ \E lines \in InvoiceTexts :
         call' = [op |-> "process_pdf_invoice", pc |-> "returned",
                  lines |-> lines, out |-> process_pdf_invoice(lines)]
    /\ UNCHANGED <<clock, active_sessions, ses, solver, sweep, reg_fault,
                   response>>

NextInvoice == process_pdf_invoice_called \/ call_returned

SpecInvoice == Init /\ [][NextInvoice]_vars

\* C20: the total is the sum of quantity x unit_price (the first two numbers
\* of the line, when 0 < quantity <= 1000 and 0 < unit_price <= 10000) over
\* exactly the lines after the first header line and before the first
\* total/tax line; 'Quantity Price', '3 10.00', '2 5.00', 'Total' give 40.0
FirstLine(lines, word) ==
    IF \E i \in 1..Len(lines) : lines[i].word = word
    THEN CHOOSE i \in 1..Len(lines) :
            lines[i].word = word /\ \A j \in 1..(i - 1) : lines[j].word # word
    ELSE Len(lines) + 1

ItemRegion(lines) ==
    {i \in 1..Len(lines) :
        FirstLine(lines, "quantity") < i /\ i < FirstLine(lines, "total")}

RECURSIVE SumOver(_, _)
SumOver(lines, region) ==
    IF region = {} THEN 0
    ELSE LET i == CHOOSE j \in region : TRUE
             n == lines[i].numbers
         IN  (IF Len(n) >= 2 /\ 0 < n[1] /\ n[1] <= 100000
                 /\ 0 < n[2] /\ n[2] <= 1000000
              THEN (n[1] \div 100) * n[2] ELSE 0)
             + SumOver(lines, region \ {i})

C20_InvoiceTotal ==
    Called("process_pdf_invoice")
        => call.out = SumOver(call.lines, ItemRegion(call.lines))

\* ======================================= QuizSolver._process_csv_normalization
\* the most rows in a CSV table
MaxRows == 2

\* a cell of a table: a whole number, a text, a date written with a
\* separator and three zero-padded numeric fields (a text too), and, inside
\* pandas, a timestamp, NaT and the float nan
IntCell(n) == [t |-> "int", s |-> "", n |-> <<n>>]
StrCell(s) == [t |-> "str", s |-> s, n |-> <<>>]
DateText(sep, a, b, c) == [t |-> "str", s |-> sep, n |-> <<a, b, c>>]
Timestamp(y, m, d) == [t |-> "datetime", s |-> "", n |-> <<y, m, d>>]
NaT == [t |-> "NaT", s |-> "", n |-> <<>>]
NanCell == [t |-> "float", s |-> "nan", n |-> <<>>]

\* the texts of the joined cells: 2024-01-15, 15/01/2024, 03/04/2024,
\* 15-01-2024 and a text that is no date
DateTexts ==
    {DateText("-", 2024, 1, 15), DateText("/", 15, 1, 2024),
     DateText("/", 3, 4, 2024), DateText("-", 15, 1, 2024), StrCell("soon")}

\* a row of the file, by the role of the column that holds the cell
CsvRows ==
    [id : {IntCell(1), IntCell(2), StrCell("x")},
     name : {StrCell("a"), StrCell("b")},
     joined : DateTexts,
     value : {IntCell(5)}]

\* a column of the file: its name as written in the header line (a sequence
\* of fragments, no keyword straddles two of them) and the role of its cells
Column(name, role) == [name |-> name, role |-> role]

CsvHeaders ==
    {<<Column(<<"id">>, "id"), Column(<<"name">>, "name"),
       Column(<<"joined">>, "joined"), Column(<<"value">>, "value")>>,
     <<Column(<<"value">>, "value"), Column(<<"name">>, "name"),
       Column(<<"id">>, "id"), Column(<<"joined">>, "joined")>>,
     <<Column(<<"User", " ", "ID">>, "id"), Column(<<"Name">>, "name"),
       Column(<<"Join", ".", "Date">>, "joined"),
       Column(<<"Value">>, "value")>>,
     <<Column(<<" ", "id">>, "id"), Column(<<"name">>, "name"),
       Column(<<"date">>, "joined"), Column(<<"value">>, "value"),
       Column(<<"note">>, "extra")>>,
     <<Column(<<"id">>, "id"), Column(<<"name">>, "name"),
       Column(<<"value">>, "value")>>,
     <<Column(<<"id">>, "id"), Column(<<"user", "_", "id">>, "extra"),
       Column(<<"name">>, "name"), Column(<<"joined">>, "joined"),
       Column(<<"value">>, "value")>>,
     <<Column(<<"id">>, "id"), Column(<<"first", "_", "name">>, "name"),
       Column(<<"last", "_", "name">>, "extra"),
       Column(<<"joined">>, "joined"), Column(<<"value">>, "value")>>,
     <<Column(<<"1">>, "id"), Column(<<"a">>, "name"),
       Column(<<"2024-01-15">>, "joined"), Column(<<"5">>, "value")>>}

CsvTables == [header : CsvHeaders, rows : SeqsUpTo(CsvRows, MaxRows)]

\* the cell of a row under a column
CellOf(row, role) == IF role = "extra" THEN StrCell("z") ELSE row[role]

\* parse_csv: the frame read with the first line as header; when the first
\* column name is all digits the file is read again without a header and the
\* column names are the integers 0, 1, ...
parse_csv(table) ==
    [named |-> table.header[1].name # <<"1">>,
     columns |-> [i \in 1..Len(table.header) |-> table.header[i].name],
     rows |-> [r \in 1..Len(table.rows) |->
                 [i \in 1..Len(table.header) |->
                     CellOf(table.rows[r], table.header[i].role)]]]

\* str.lower() of a fragment of a column name
LowerFragment(f) ==
    CASE f = "ID" -> "id"
      [] f = "User" -> "user"
      [] f = "Name" -> "name"
      [] f = "Join" -> "join"
      [] f = "Date" -> "date"
      [] f = "Value" -> "value"
      [] OTHER -> f

LowerName(name) == [i \in 1..Len(name) |-> LowerFragment(name[i])]

\* re.sub(r'[^\w\s]', '', ...): the fragments that are neither word
\* characters nor blanks are dropped
RECURSIVE DropPunctuation(_)
DropPunctuation(name) ==
    IF Len(name) = 0 THEN <<>>
    ELSE IF Head(name) = "." THEN DropPunctuation(Tail(name))
    ELSE <<Head(name)>> \o DropPunctuation(Tail(name))

\* re.sub(r'\s+', '_', ...): every run of blanks becomes one underscore
RECURSIVE JoinBlanks(_)
JoinBlanks(name) ==
    IF Len(name) = 0 THEN <<>>
    ELSE IF Head(name) \in Blank
    THEN <<"_">> \o JoinBlanks(LStrip(name))
    ELSE <<Head(name)>> \o JoinBlanks(Tail(name))

\* the snake_case name of a stripped column name
Normalized(original_col) ==
    JoinBlanks(DropPunctuation(LowerName(original_col)))

\* df.rename(columns=column_mapping): the mapping is keyed by the stripped
\* names, so a name with blanks around it is no key and stays as it is
column_mapping(columns) ==
    [i \in 1..Len(columns) |->
        IF \E j \in 1..Len(columns) : Strip(columns[j]) = columns[i]
        THEN Normalized(columns[i]) ELSE columns[i]]

required_columns == <<"id", "name", "joined", "value">>

\* 'word' in col.lower()
Contains(word, col) ==
    \E i \in 1..Len(col) : LowerFragment(col[i]) = word

\* df.rename(columns={col: new})
Rename(columns, col, new) ==
    [i \in 1..Len(columns) |-> IF columns[i] = col THEN <<new>> ELSE columns[i]]

\* the loop that renames the columns to the required names: it runs over
\* the names the frame had when the loop began
RECURSIVE RenameLoop(_, _)
RenameLoop(columns, snapshot) ==
    IF Len(snapshot) = 0 THEN columns
    ELSE LET col == Head(snapshot)
             renamed ==
                 IF Contains("id", col) THEN Rename(columns, col, "id")
                 ELSE IF Contains("name", col) THEN Rename(columns, col, "name")
                 ELSE IF Contains("joined", col) \/ Contains("date", col)
                 THEN Rename(columns, col, "joined")
                 ELSE IF Contains("value", col)
                 THEN Rename(columns, col, "value")
                 ELSE columns
         IN  RenameLoop(renamed, Tail(snapshot))

\* the loop that looks for a similar column for each required column that is
\* still missing: the first column whose name contains it is renamed
RECURSIVE EnsureLoop(_, _)
EnsureLoop(columns, required) ==
    IF Len(required) = 0 THEN columns
    ELSE LET req_col == Head(required)
             similar == {i \in 1..Len(columns) : Contains(req_col, columns[i])}
             first == CHOOSE i \in similar : \A j \in similar : i <= j
         IN  IF (\E i \in 1..Len(columns) : columns[i] = <<req_col>>)
                \/ similar = {}
             THEN EnsureLoop(columns, Tail(required))
             ELSE EnsureLoop(Rename(columns, columns[first], req_col),
                             Tail(required))

\* the positions of the columns called col
Positions(columns, col) == {i \in 1..Len(columns) : columns[i] = <<col>>}

\* the positions in ascending order
RECURSIVE Ascending(_)
Ascending(positions) ==
    IF positions = {} THEN <<>>
    ELSE LET i == CHOOSE k \in positions : \A j \in positions : k <= j
         IN  <<i>> \o Ascending(positions \ {i})

\* df_clean[existing_cols]: the positions kept, required column by required
\* column; every column that carries the name is selected
RECURSIVE existing_cols(_, _)
existing_cols(columns, required) ==
    IF Len(required) = 0 THEN <<>>
    ELSE Ascending(Positions(columns, Head(required)))
         \o existing_cols(columns, Tail(required))

\* pd.to_numeric(errors='coerce').fillna(0).astype(int) of a cell
ToInt(cell) == IF cell.t = "int" THEN cell ELSE IntCell(0)

\* the date formats tried, in the order of the list: the separator and the
\* positions of the year, the month and the day
DateFormats ==
    <<[sep |-> "-", y |-> 1, m |-> 2, d |-> 3],
      [sep |-> "/", y |-> 3, m |-> 2, d |-> 1],
      [sep |-> "/", y |-> 3, m |-> 1, d |-> 2],
      [sep |-> "/", y |-> 1, m |-> 2, d |-> 3],
      [sep |-> "-", y |-> 3, m |-> 2, d |-> 1],
      [sep |-> "-", y |-> 3, m |-> 1, d |-> 2]>>

\* whether a text is a date of the format: %Y takes four digits, %m a month
\* and %d a day of at most two digits
Matches(cell, format) ==
    /\ cell.t = "str" /\ Len(cell.n) = 3 /\ cell.s = format.sep
    /\ cell.n[format.y] >= 1000 /\ cell.n[format.y] <= 9999
    /\ cell.n[format.m] >= 1 /\ cell.n[format.m] <= 12
    /\ cell.n[format.d] >= 1 /\ cell.n[format.d] <= 31

\* pd.to_datetime(format=..., errors='coerce') of a cell: a cell that is a
\* timestamp or NaT already is returned as it is, whatever the format
ToDatetime(cell, format) ==
    IF cell.t \in {"datetime", "NaT"} THEN cell
    ELSE IF Matches(cell, format)
    THEN Timestamp(cell.n[format.y], cell.n[format.m], cell.n[format.d])
    ELSE NaT

\* the loop over the formats: each try assigns its result to the column, and
\* the loop ends at the first try that parsed a cell
RECURSIVE FormatLoop(_, _)
FormatLoop(joined, formats) ==
    IF Len(formats) = 0 THEN joined
    ELSE LET parsed == [r \in 1..Len(joined) |->
                           ToDatetime(joined[r], Head(formats))]
         IN  IF \E r \in 1..Len(parsed) : parsed[r].t # "NaT"
             THEN parsed
             ELSE FormatLoop(parsed, Tail(formats))

\* pd.to_datetime(errors='coerce') without a format, reached when the column
\* is all NaT: timestamps and NaT are returned as they are, a text is parsed
\* by the first format it is written in
Inferred(cell) ==
    IF cell.t \in {"datetime", "NaT"} THEN cell
    ELSE IF \E k \in 1..Len(DateFormats) : Matches(cell, DateFormats[k])
    THEN ToDatetime(cell, DateFormats[CHOOSE k \in 1..Len(DateFormats) :
            /\ Matches(cell, DateFormats[k])
            /\ \A j \in 1..(k - 1) : ~Matches(cell, DateFormats[j])])
    ELSE NaT

\* .dt.strftime('%Y-%m-%d'): NaT gives nan
Strftime(cell) ==
    IF cell.t = "datetime" THEN DateText("-", cell.n[1], cell.n[2], cell.n[3])
    ELSE NanCell

\* the joined column converted
ConvertJoined(joined) ==
    LET tried == FormatLoop(joined, DateFormats)
        final == IF \A r \in 1..Len(tried) : tried[r].t = "NaT"
                 THEN [r \in 1..Len(tried) |-> Inferred(tried[r])]
                 ELSE tried
    IN  [r \in 1..Len(final) |-> Strftime(final[r])]

\* the result of the extractor: a list of records, or None
CsvNone == [kind |-> "None", records |-> <<>>]
CsvRecords(records) == [kind |-> "records", records |-> records]

\* the orders of n rows: the permutations of 1..n
RowOrders(n) ==
    {p \in [1..n -> 1..n] : \A i, j \in 1..n : p[i] = p[j] => i = j}

\* df.sort_values('id'): the default kind is quicksort, which is not stable,
\* so the rows come in any order that is ascending by id
sort_values(rows, at) ==
    {[r \in 1..Len(rows) |-> rows[p[r]]] :
        p \in {q \in RowOrders(Len(rows)) :
                 \A i \in 1..(Len(rows) - 1) :
                    rows[q[i]][at].n[1] <= rows[q[i + 1]][at].n[1]}}

\* dict(zip(columns, row)): the keys in the order of their first column, each
\* with the cell of its last column
RECURSIVE ToDict(_, _, _)
ToDict(columns, row, i) ==
    IF i > Len(columns) THEN <<>>
    ELSE IF \E j \in 1..(i - 1) : columns[j] = columns[i]
    THEN ToDict(columns, row, i + 1)
    ELSE LET last == CHOOSE k \in i..Len(columns) :
                        /\ columns[k] = columns[i]
                        /\ \A j \in (k + 1)..Len(columns) :
                              columns[j] # columns[i]
         IN  <<[key |-> columns[i][1], value |-> row[last]]>>
             \o ToDict(columns, row, i + 1)

\* df.to_dict(orient='records')
to_dict(columns, rows) ==
    [r \in 1..Len(rows) |-> ToDict(columns, rows[r], 1)]

\* the column at a position converted to whole numbers
Converted(rows, at) ==
    [r \in 1..Len(rows) |->
        [i \in 1..Len(rows[r]) |->
            IF i = at THEN ToInt(rows[r][i]) ELSE rows[r][i]]]

\* the joined column replaced by its conversion
WithJoined(rows, at) ==
    LET joined == ConvertJoined([r \in 1..Len(rows) |-> rows[r][at]])
    IN  [r \in 1..Len(rows) |->
            [i \in 1..Len(rows[r]) |->
                IF i = at THEN joined[r] ELSE rows[r][i]]]

\* the only position of a set of one
Only(positions) == CHOOSE i \in positions : TRUE

\* _process_csv_normalization after the download: the results it can return.
\* No content (the download or the parse raised) gives None; integer column
\* names (a file read without header) have no lower() and give None; a name
\* carried by two columns selects a frame, which to_numeric and the date
\* conversion refuse, and gives None
process_csv_normalization(table) ==
    IF Len(table.header) = 0 THEN {CsvNone}
    ELSE
    LET df == parse_csv(table)
        snake == column_mapping(df.columns)
        renamed == EnsureLoop(RenameLoop(snake, snake), required_columns)
        kept == existing_cols(renamed, required_columns)
        columns == [i \in 1..Len(kept) |-> renamed[kept[i]]]
        rows == [r \in 1..Len(df.rows) |->
                    [i \in 1..Len(kept) |-> df.rows[r][kept[i]]]]
        ids == Positions(columns, "id")
        values == Positions(columns, "value")
        joineds == Positions(columns, "joined")
        with_id == IF ids = {} THEN rows
                   ELSE Converted(rows, Only(ids))
        with_value == IF values = {} THEN with_id
                      ELSE Converted(with_id, Only(values))
        with_joined == IF joineds = {} THEN with_value
                       ELSE WithJoined(with_value, Only(joineds))
        sorted == IF ids = {} THEN {with_joined}
                  ELSE sort_values(with_joined, Only(ids))
    IN  IF ~df.named THEN {CsvNone}
        ELSE IF Cardinality(ids) > 1 \/ Cardinality(values) > 1
                \/ Cardinality(joineds) > 1
        THEN {CsvNone}
        ELSE {CsvRecords(to_dict(columns, result)) : result \in sorted}

\* the content that stands for a failed download and for an empty file
NoContent == [header |-> <<>>, rows |-> <<>>]

\* one call of the extractor on the content at csv_path
process_csv_called ==
    /\ call.op = "none"
    /\ \E table \in CsvTables \cup {NoContent} :
       \E out \in process_csv_normalization(table) :
         call' = [op |-> "process_csv", pc |-> "returned",
                  table |-> table, out |-> out]
    /\ UNCHANGED <<clock, active_sessions, ses, solver, sweep, reg_fault,
                   response>>

NextCsv == process_csv_called \/ call_returned

SpecCsv == Init /\ [][NextCsv]_vars

\* what the claims say of a call: the records returned
Records == call.out.records

\* a table that is the extractor's own output: the columns id, name, joined,
\* value, whole-number id and value, joined written YYYY-MM-DD, rows
\* ascending by id
Canonical(table) ==
    /\ table.header = <<Column(<<"id">>, "id"), Column(<<"name">>, "name"),
                        Column(<<"joined">>, "joined"),
                        Column(<<"value">>, "value")>>
    /\ \A r \in 1..Len(table.rows) :
          /\ table.rows[r].id.t = "int" /\ table.rows[r].value.t = "int"
          /\ Matches(table.rows[r].joined, DateFormats[1])
    /\ \A r \in 1..(Len(table.rows) - 1) :
          table.rows[r].id.n[1] <= table.rows[r + 1].id.n[1]

\* the record of a canonical row
RecordOf(row) ==
    <<[key |-> "id", value |-> row.id], [key |-> "name", value |-> row.name],
      [key |-> "joined", value |-> row.joined],
      [key |-> "value", value |-> row.value]>>

\* C21: normalizing a table that is already canonical (columns id, name,
\* joined, value; whole-number id and value; joined as YYYY-MM-DD; rows
\* ascending by id) returns the records of its rows, in the same order
C21_Idempotent ==
    Called("process_csv") /\ Canonical(call.table)
        => /\ call.out.kind = "records"
           /\ Records = [r \in 1..Len(call.table.rows) |->
                            RecordOf(call.table.rows[r])]

\* the date a text is written as, by the first listed format it matches
DateOf(cell) == Strftime(Inferred(cell))

\* the joined cells of a table, when it has one joined column
Listed(table) ==
    \A r \in 1..Len(table.rows) :
        \E k \in 1..Len(DateFormats) :
            Matches(table.rows[r].joined, DateFormats[k])

OneJoined(table) ==
    Cardinality({i \in 1..Len(table.header) :
                    table.header[i].role = "joined"}) = 1

\* the value a record has under a key, the cell nan when it has none
Field(record, key) ==
    IF \E i \in 1..Len(record) : record[i].key = key
    THEN record[CHOOSE i \in 1..Len(record) : record[i].key = key].value
    ELSE NanCell

\* C26: when every joined value of the table is written in one of the six
\* listed patterns, every returned record's joined field is a date written
\* YYYY-MM-DD (never null), and it is the date its row's text denotes under
\* the first listed pattern that the text matches
C26_DatePatterns ==
    Called("process_csv") /\ call.out.kind = "records"
    /\ OneJoined(call.table) /\ Listed(call.table)
        => /\ \A r \in 1..Len(Records) :
                Matches(Field(Records[r], "joined"), DateFormats[1])
           /\ \A r \in 1..Len(Records) :
                \E row \in 1..Len(call.table.rows) :
                    /\ Field(Records[r], "joined")
                          = DateOf(call.table.rows[row].joined)
                    /\ Field(Records[r], "name")
                          = call.table.rows[row].name

\* C27: every record returned by the CSV normalization has exactly the four
\* keys id, name, joined, value, in that order, whatever columns the table
\* has
C27_FourKeys ==
    Called("process_csv") /\ call.out.kind = "records"
        => \A r \in 1..Len(Records) :
              [i \in 1..Len(Records[r]) |-> Records[r][i].key]
                  = required_columns

\* ===================================================== QuizSolver._format_answer
\* one call of _format_answer on an answer value, with the numpy in use
format_answer_called ==
    /\ call.op = "none"
    /\ \E answer \in Leaves \cup Outer, lib \in {"old", "new"} :
         call' = [op |-> "format_answer", pc |-> "returned",
                  answer |-> answer, lib |-> lib,
                  out |-> format_answer(answer, lib)]
    /\ UNCHANGED <<clock, active_sessions, ses, solver, sweep, reg_fault,
                   response>>

NextFormat == format_answer_called \/ call_returned

SpecFormat == Init /\ [][NextFormat]_vars

\* a value made of primitives only: numbers, texts, booleans, null, nan
RECURSIVE OnlyPrimitives(_)
OnlyPrimitives(value) ==
    IF value.t \in {"list", "dict"}
    THEN \A i \in 1..Len(value.items) : OnlyPrimitives(value.items[i])
    ELSE value.t \in {"int", "str", "bool", "NoneType", "float"}

\* the value with every nan cell replaced by null and nothing else changed
RECURSIVE Nulled(_)
Nulled(value) ==
    IF value.t \in {"list", "dict"}
    THEN [value EXCEPT !.items =
            [i \in 1..Len(value.items) |-> Nulled(value.items[i])]]
    ELSE IF value = NaN THEN Null ELSE value

\* C22: _format_answer returns 42, "x", true and null unchanged; of a list
\* or dict of primitives, nested to any depth, it returns the same value
\* with every nan cell replaced by null; and no nan is left in the list or
\* dict it returns
C22_FormatAnswer ==
    Called("format_answer")
        => /\ call.answer \in {Num, Str(1), True, Null}
                => call.out = call.answer
           /\ call.answer.t \in {"list", "dict"} /\ OnlyPrimitives(call.answer)
                => call.out = Nulled(call.answer)
           /\ call.answer.t \in {"list", "dict"} => ~HasNaN(call.out)

\* ============================================== process_quiz: retry with feedback
\* the reason of a rejection: the keywords that occur in its text; NoReason
\* is the empty text, which is not appended
NoReason == [given |-> FALSE, words |-> {}]
FeedbackReasons ==
    {NoReason}
    \cup {[given |-> TRUE, words |-> w] :
            w \in {{}, {"command"}, {"csv"}, {"count"}}}

\* quiz_data["question"] += "\nPrevious attempt feedback: <reason>": the
\* text gains the words of the reason (the fixed prefix holds no keyword)
WithFeedback(q, reason) ==
    IF reason.given THEN [q EXCEPT !.words = @ \cup reason.words] ELSE q

\* a first attempt and a retry of the same page: solve_quiz parses the
\* question text it is given on each call
retry_parsed ==
    /\ call.op = "none"
    /\ \E q \in Questions, reason \in FeedbackReasons :
         call' = [op |-> "retry", pc |-> "returned", question |-> q,
                  reason |-> reason,
                  first |-> parse_question_enhanced(q),
                  out |-> parse_question_enhanced(WithFeedback(q, reason))]
    /\ UNCHANGED <<clock, active_sessions, ses, solver, sweep, reg_fault,
                   response>>

NextRetry == retry_parsed \/ call_returned

SpecRetry == Init /\ [][NextRetry]_vars

\* C23: the retry of a page runs under the category and the parameters
\* (question type, command type, data type, needs-data, operation hint)
\* computed for its first attempt, whatever the rejection reason says
C23_RetryKeepsClassification ==
    Called("retry")
        => /\ call.out = call.first
           /\ RoutedCategory(call.out) = RoutedCategory(call.first)

\* ======================================================= QuizSolver.solve_quiz
\* the direct-processing steps of solve_quiz, in the order of the code
Extractors ==
    <<"command", "markdown_link", "image", "csv", "pdf_invoice",
      "github_api", "audio">>

\* the test that guards a step
Guard(step, task_info) ==
    CASE step = "command" -> task_info.question_type = "command"
      [] step = "markdown_link" -> task_info.question_type = "markdown_link"
      [] step = "image" -> /\ task_info.data_type = "image"
                           /\ task_info.operation = "dominant_color"
      [] step = "csv" -> /\ task_info.operation = "normalize"
                         /\ task_info.data_type = "csv"
      [] step = "pdf_invoice" -> task_info.data_type = "pdf_invoice"
      [] step = "github_api" -> task_info.data_type = "github_api"
      [] step = "audio" -> task_info.data_type = "audio"

\* what an extractor gives: None, a value that is false in a test (the total
\* 0.0, the count 0, the list [] of an empty table), a value that is true in
\* a test, or an exception (the command extractor is not called inside a try)
Outcomes(step) ==
    CASE step = "command" -> {"None", "truthy", "raise"}
      [] step \in {"markdown_link", "image", "audio"} -> {"None", "truthy"}
      [] OTHER -> {"None", "falsy", "truthy"}

\* every step testing `is not None`
TakenNotNone(step, ext) == ext # "None"

\* the test on the value of a step: `if answer is not None` for the GitHub
\* step, `if answer` for the others (`if audio_url` for the audio step)
Taken(step, ext) ==
    IF step = "github_api" THEN ext # "None" ELSE ext = "truthy"

\* a result of solve_quiz: the extractors called, in order, the pathway that
\* gave the answer, the answer, and whether an exception left the function
Solved(tried, via, answer) ==
    [tried |-> tried, via |-> via, answer |-> answer, raised |-> FALSE]
SolveRaised(tried, via) ==
    [tried |-> tried, via |-> via, answer |-> "None", raised |-> TRUE]

\* the language-model call of the generic pathway, inside its try: an
\* exception gives the answer None
GenericPathway(tried, llm) ==
    Solved(tried, "llm", IF llm = "raise" THEN "None" ELSE llm)

\* the steps from the i-th on, then the generic pathway; _fetch_and_process_data
\* returns an empty context, so no computed result is ever used
RECURSIVE DirectSteps(_, _, _, _, _)
DirectSteps(i, task_info, ext, llm, tried) ==
    IF i > Len(Extractors) THEN GenericPathway(tried, llm)
    ELSE LET step == Extractors[i]
         IN  IF ~Guard(step, task_info)
             THEN DirectSteps(i + 1, task_info, ext, llm, tried)
             ELSE IF ext = "raise" THEN SolveRaised(tried \o <<step>>, step)
             ELSE IF ~Taken(step, ext)
             THEN DirectSteps(i + 1, task_info, ext, llm, tried \o <<step>>)
             ELSE IF step = "audio"
             THEN IF llm = "raise" THEN SolveRaised(tried \o <<step>>, "llm")
                  ELSE Solved(tried \o <<step>>, "llm", llm)
             ELSE Solved(tried \o <<step>>, step, ext)

\* solve_quiz on a question text: short is a text of fewer than 10
\* characters once stripped; ext is what the extractor called gives, llm what
\* the language-model client gives
quiz_solver_solve_quiz(short, q, ext, llm) ==
    IF short THEN Solved(<<>>, "short", "None")
    ELSE DirectSteps(1, parse_question_enhanced(q), ext, llm, <<>>)

\* the outcomes of the extractor that the descriptor's tests select
Selected(task_info) ==
    {i \in 1..Len(Extractors) : Guard(Extractors[i], task_info)}

ExtractorOutcomes(task_info) ==
    IF Selected(task_info) = {} THEN {"None"}
    ELSE UNION {Outcomes(Extractors[i]) : i \in Selected(task_info)}

\* one call of solve_quiz
solve_quiz_called ==
    /\ call.op = "none"
    /\ \E q \in Questions, short \in BOOLEAN,
          llm \in {"None", "answer", "raise"} :
       \E ext \in ExtractorOutcomes(parse_question_enhanced(q)) :
         /\ short => q.words = {} /\ ext = "None" /\ llm = "None"
         /\ call' = [op |-> "solve_quiz", pc |-> "returned", question |-> q,
                     short |-> short, ext |-> ext, llm |-> llm,
                     out |-> quiz_solver_solve_quiz(short, q, ext, llm)]
    /\ UNCHANGED <<clock, active_sessions, ses, solver, sweep, reg_fault,
                   response>>

NextSolve == solve_quiz_called \/ call_returned

SpecSolve == Init /\ [][NextSolve]_vars

\* whether an extractor was called
Tried(step) == \E i \in 1..Len(call.out.tried) : call.out.tried[i] = step

\* the category of the question by its patterns, before any operation hint
Classified == RoutedCategory(ParseCategory(call.question))

\* C24: a question classified image_dominant_color or csv_normalization is
\* handed to its own extractor whatever operation hint (sum, count,
\* calculate) its text triggers, and the generic pathway answers it only
\* after that extractor returned none
C24_RoutingMatchesCategory ==
    Called("solve_quiz") /\ ~call.short
        => /\ Classified = "image_dominant_color" => Tried("image")
           /\ Classified = "csv_normalization" => Tried("csv")
           /\ Classified \in {"image_dominant_color", "csv_normalization"}
              /\ call.out.via = "llm"
                => call.ext # "truthy"

\* C30: solve_quiz returns the value of the command, markdown, image, CSV
\* and PDF-invoice extractors only when it is truthy: a total of 0.0 or an
\* empty record list is dropped and the language-model pathway answers;
\* the GitHub extractor's value is returned whenever it is not None, 0 too
C30_FalsyIsNoAnswer ==
    Called("solve_quiz")
        => /\ \A step \in {"command", "markdown_link", "image", "csv",
                           "pdf_invoice"} :
                /\ call.out.via = step /\ ~call.out.raised
                      => call.ext = "truthy"
                /\ Tried(step) /\ call.ext = "falsy"
                      => call.out.via = "llm" /\ ~call.out.raised
           /\ Tried("github_api") /\ call.ext # "None"
                => call.out.via = "github_api" /\ call.out.answer = call.ext

C30_Witness ==
    /\ Called("solve_quiz") /\ Tried("pdf_invoice") /\ call.ext = "falsy"
    /\ call.out.via = "llm" /\ call.llm = "answer"

C30_WitnessGithub ==
    /\ Called("solve_quiz") /\ Tried("github_api") /\ call.ext = "falsy"
    /\ call.out.via = "github_api"

\* ================================== QuizSolver._extract_command_answer: git
\* the most fragments in a git question
MaxGit == 3

\* the fragments of a question of command_type git, which a blank joins: a
\* stage instruction with and without the word only, a message with and
\* without quotes, the literal commands with and without their argument,
\* and other words
GitFragments ==
    {"stage only notes.txt", "stage notes.txt", "message \"fix\"",
     "message fix",
     "git add notes.txt", "git add", "git commit -m \"fix\"", "git commit",
     "please"}

GitQuestions == SeqsUpTo(GitFragments, MaxGit)

\* re.search(r'stage only\s+([\w\-_.]+)') and
\* re.search(r'message\s+["\']([^"\']+)["\']')
file_match(question) == Find(question, "stage only notes.txt") # 0
msg_match(question) == Find(question, "message \"fix\"") # 0

\* a result of the extractor: a command text, None, or an exception
CommandText(text) == [kind |-> "command", text |-> text]
CommandNone == [kind |-> "None", text |-> ""]
CommandRaised == [kind |-> "raise", text |-> "UnboundLocalError"]

\* the branch for command_type git: with both strict matches the two
\* commands; otherwise the test of the alternative reads question_lower,
\* a local variable assigned only in the uv branch, and raises
extract_git_answer(question) ==
    IF file_match(question) /\ msg_match(question)
    THEN CommandText("git add notes.txt\ngit commit -m \"fix\"")
    ELSE CommandRaised

\* one call of the extractor on a question of command_type git
extract_git_called ==
    /\ call.op = "none"
    /\ \E question \in GitQuestions :
         call' = [op |-> "extract_git", pc |-> "returned",
                  question |-> question, out |-> extract_git_answer(question)]
    /\ UNCHANGED <<clock, active_sessions, ses, solver, sweep, reg_fault,
                   response>>

NextGit == extract_git_called \/ call_returned

SpecGit == Init /\ [][NextGit]_vars

\* whether the text holds a literal add command and a literal commit command
HasAdd(question) == Find(question, "git add notes.txt") # 0

HasCommit(question) == Find(question, "git commit -m \"fix\"") # 0

\* C25: for a git question that the strict pattern does not match, the
\* command extractor never raises; it returns the literal git add and
\* git commit -m fragments of the question joined by a newline, and None
\* when one of them is missing
C25_GitFallback ==
    Called("extract_git")
    /\ ~(file_match(call.question) /\ msg_match(call.question))
        => /\ call.out.kind # "raise"
           /\ HasAdd(call.question) /\ HasCommit(call.question)
                => call.out
                     = CommandText("git add notes.txt\ngit commit -m \"fix\"")
           /\ ~(HasAdd(call.question) /\ HasCommit(call.question))
                => call.out = CommandNone

\* ================================== GroqClient._extract_answer: boolean inference
\* the most words in a response that reaches the boolean step
MaxBool == 3

\* the words of such a response: none of them holds a number, a quote, JSON
\* or a link, so no earlier step matches (the question has none of the
\* keywords of the special cases)
BoolTokens == {"True", "false", "yes", "no", "know", "maybe"}

BoolTexts == SeqsUpTo(BoolTokens, MaxBool)

\* the literals a word has inside it once lowercased
InsideToken(token) ==
    CASE token = "True" -> {"true"}
      [] token = "know" -> {"no"}
      [] token = "maybe" -> {}
      [] OTHER -> {token}

\* response_lower.find(literal): the word of the first occurrence, -1 when
\* there is none
FindLower(text, literal) ==
    IF \E i \in 1..Len(text) : literal \in InsideToken(text[i])
    THEN CHOOSE i \in 1..Len(text) :
            /\ literal \in InsideToken(text[i])
            /\ \A j \in 1..(i - 1) : literal \notin InsideToken(text[j])
    ELSE -1

\* the boolean step: "True", "False", or "none" when the later steps decide
infer_boolean(text) ==
    LET true_pos == FindLower(text, "true")
        false_pos == FindLower(text, "false")
        yes_pos == FindLower(text, "yes")
        no_pos == FindLower(text, "no")
    IN  IF /\ true_pos # -1 \/ yes_pos # -1
           /\ \/ false_pos = -1
              \/ true_pos # -1 /\ (false_pos = -1 \/ true_pos < false_pos)
           /\ \/ no_pos = -1
              \/ yes_pos # -1 /\ (no_pos = -1 \/ yes_pos < no_pos)
        THEN "True"
        ELSE IF /\ false_pos # -1 \/ no_pos # -1
                /\ \/ true_pos = -1
                   \/ false_pos # -1 /\ (true_pos = -1 \/ false_pos < true_pos)
                /\ \/ yes_pos = -1
                   \/ no_pos # -1 /\ (yes_pos = -1 \/ no_pos < yes_pos)
        THEN "False"
        ELSE "none"

\* one call of _extract_answer on a response that reaches the boolean step
infer_boolean_called ==
    /\ call.op = "none"
    /\ \E text \in BoolTexts :
         call' = [op |-> "infer_boolean", pc |-> "returned", text |-> text,
                  out |-> infer_boolean(text)]
    /\ UNCHANGED <<clock, active_sessions, ses, solver, sweep, reg_fault,
                   response>>

NextBoolean == infer_boolean_called \/ call_returned

SpecBoolean == Init /\ [][NextBoolean]_vars

\* the earliest first occurrence of one of two literals, -1 when neither
\* occurs
Earliest(text, a, b) ==
    LET pa == FindLower(text, a)
        pb == FindLower(text, b)
    IN  IF pa = -1 THEN pb
        ELSE IF pb = -1 THEN pa
        ELSE IF pa < pb THEN pa ELSE pb

\* C28: with p the earliest first occurrence of true or yes and n that of
\* false or no in the lowercased response, the step gives True when p exists
\* and n is absent or later, False when n exists and p is absent or later,
\* and no boolean only when neither exists
C28_EarliestWins ==
    Called("infer_boolean")
        => LET p == Earliest(call.text, "true", "yes")
               n == Earliest(call.text, "false", "no")
           IN  /\ p # -1 /\ (n = -1 \/ p < n) => call.out = "True"
               /\ n # -1 /\ (p = -1 \/ n < p) => call.out = "False"
               /\ call.out = "none" => p = -1 /\ n = -1

\* ============================================ process_quiz: timeout checks and I/O
\* C29: a step of a session that begins a page fetch or makes a submission
\* POST does so right after a check that found the elapsed time below the
\* timeout (at the time of the fetch call, at the time of the POST); and once
\* a check has found the timeout expired, the session begins no fetch and
\* makes no POST in any later step
C29_NoIoAfterExpiredCheck ==
    [][\A s \in Sessions :
         Stepped(s)
           => /\ ses'[s].ev.began = "fetch"
                   => clock' - ses'[s].start_time < QUIZ_TIMEOUT
              /\ ses'[s].ev.posted
                   => clock - ses[s].start_time < QUIZ_TIMEOUT
              /\ ses[s].exit = "timeout"
                   => /\ ses'[s].ev.began = "none"
                      /\ ~ses'[s].ev.posted
                      /\ ses'[s].exit = "timeout"]_vars

\* a POST made within the timeout whose result arrived after it: the check
\* that follows finds the timeout expired
C29_Witness ==
    \E s \in Sessions :
        /\ ses[s].exit = "timeout" /\ ses[s].ev.posted
        /\ clock - ses[s].start_time >= QUIZ_TIMEOUT

\* a session that has finished its closing steps after an expired check
C29_WitnessClosed ==
    \E s \in Sessions :
        /\ ses[s].exit = "timeout" /\ ses[s].pc = "done"
        /\ ~ses[s].ev.posted /\ solver[s].closes # <<>>

====
